---- MODULE Spec2Model ----
(***************************************************************************)
(* Model of cmd/storage-rest-server.go: the keep-alive / streaming framing *)
(* protocol (keepHTTPReqResponseAlive, keepHTTPResponseAlive,              *)
(* streamHTTPResponse with httpStreamResponse), its client decoders        *)
(* (waitForHTTPResponse, waitForHTTPStream) and the disk access gateway    *)
(* (IsAuthValid, IsValid, checkID, writeErrorResponse).                    *)
(*                                                                         *)
(* Three specifications share the module:                                  *)
(*   Spec     one keep-alive session: owner task, completion callers,      *)
(*            block producers, request body / context, transport           *)
(*   DecSpec  the client decoders applied to generated byte streams        *)
(*   GateSpec the gateway's validation of one request after another        *)
(***************************************************************************)
EXTENDS Integers, Sequences, FiniteSets, TLC

VARIABLES
    \* ---- keep-alive session (Spec) ----
    variant,    \* "req" | "resp" | "stream": which constructor made the session
    doneVar,    \* the closure variable doneCh / the field h.done: "ch" or "nil"
    chClosed,   \* the completion channel has been closed
    taskpc,     \* owner task: "drain" | "loop" | "blk" | "term" | "done"
    termErr,    \* the error value the owner task received on the completion channel
    cur,        \* the block the owner task received and has not yet written
    canWrite,   \* the owner task's canWrite flag
    alive,      \* the transport still accepts writes (a write error is sticky)
    wire,       \* bytes the transport accepted, each with the frame kind it belongs to
    ticks,      \* ticker ticks consumed so far
    pc,         \* per completion caller: position inside the completion function
    arg,        \* per completion caller: the error it passes
    noop,       \* per completion caller: the call returned at the nil check
    first,      \* the caller whose value the owner task received ("none" before)
    overlap,    \* history: some completion call began while another was in progress
    hErr,       \* httpStreamResponse.err
    pw,         \* per producer: "idle" | "sending" (blocked in h.block <- tmp)
    blk,        \* per producer: the copy it is handing off
    submitted,  \* history: every Write call, <<producer, block>>, in call order
    accepted,   \* history: the blocks the owner task received, in order
    paid,       \* the handler wrote its own payload after completion
    ctxDone,    \* the request context has ended
    bodyDone,   \* bodyDoneCh has been closed
    cnDone,     \* closeNotifier.done: "ch" or "nil"
    bodyLeft,   \* chunks of request body not yet read
    wops,       \* history: Write and Flush calls the owner task made on the transport
    failOp,     \* history: wops right after the task's first failed write (0: none)
    late,       \* history: the Write calls made after a completion call returned
    \* ---- client decoders (DecSpec) ----
    dKind,      \* "resp" (waitForHTTPResponse) | "stream" (waitForHTTPStream)
    dFrames,    \* the frames the input stream was generated from
    dIn,        \* the byte stream handed to the decoder
    dIns,       \* heartbeat bytes inserted into dIn so far
    dAtTag,     \* every insertion so far was made at a tag position
    dRes,       \* the decoder's result on dIn (res is "none" before it ran)
    dRes0,      \* the decoder's result on the stream as generated
    \* ---- disk access gateway (GateSpec) ----
    attached,   \* the registry slot of this server's coordinate holds a disk
    storedID,   \* the disk-id the collaborator's GetDiskID reports
    getErr,     \* the error the collaborator's GetDiskID reports
    req,        \* the request being validated (path is "none" before it arrives)
    out,        \* what the validation returned and wrote
    hnd,        \* the handler that took the request ("none" before)
    opCalls,    \* calls of the collaborator's data operation made for the request
    errWrites,  \* error responses written for the request (writeErrorResponse)
    reply,      \* what the handler reported after the collaborator's operation
    \* ---- fatal error policy (FatalSpec) ----
    errs,       \* the errors of a batch of disks, one per disk (nil for none)
    fpc,        \* "start" | "checked" | "logged"
    fatalErr,   \* what checkDiskFatalErrs(errs) returned
    exit,       \* the exit flag logFatalErrs was called with
    fatalOut,   \* what logFatalErrs did: "none" | "logged" | "fatal"
    \* ---- disk bootstrap (BootSpec) ----
    bpos,       \* the endpoint the loop of registerStorageRESTHandlers is at
    bpc,        \* per disk: "todo" | "new" | "sleep" | "lock" | "append" | "slot" | "unlock" | "done"
    attempts,   \* per disk: calls of createStorage made
    lastErr,    \* per disk: the error of its last failed newXLStorage
    retrying,   \* per disk: its retry goroutine has been started
    logs,       \* per disk: failures written to the log
    mu,         \* globalLocalDrivesMu: the disk whose createStorage holds it, 0 for none
    readers,    \* globalLocalDrivesMu: holders of the shared side
    drives,     \* globalLocalDrives
    slotWrites, \* per disk: writes of its slot of globalLocalSetDrives
    exited,     \* logger.Fatal ended the process
    lkpc,       \* a lookup: "idle" | "locked" | "slot" | "list"
    lkPub,      \* the disks published when the lookup took the shared lock
    lkSlot,     \* the disks whose slot the lookup found set
    lkList,     \* the disks the lookup found in globalLocalDrives
    lookups,    \* lookups made
    lkSeen,     \* the disks an earlier lookup found set
    \* DeleteVersionsHandler
    dvpc,       \* position of the handler
    dvN,        \* totalVersions
    dvIdx,      \* index of the running loop
    dvErrs,     \* errs, what DeleteVersions returned
    dvSlots,    \* dErrsResp.Errs
    dvWire,     \* what the transport accepted, in order
    dvCanWrite, \* canWrite of the keep-alive task
    dvBroken,   \* a write to the transport has failed
    dvTicks,    \* ticker ticks so far
    dvErrResp,  \* the error writeErrorResponse was called with
    \* NSScannerHandler
    scpc,       \* position of the handler
    scRet,      \* what the handler returned
    scErr,      \* err, what NSScanner returned
    scUI,       \* ui, what NSScanner returned
    nspc,       \* position of NSScanner: "idle" | "run" | "returned"
    updates,    \* the buffer of the channel updates
    updClosed,  \* updates has been closed
    produced,   \* the updates NSScanner has sent, in order
    fwpc,       \* position of the forwarding task
    fwCur,      \* the update the forwarding task holds
    outCh,      \* what was sent on out, in order
    \* closeNotifier, one step of Read and Close at a time
    nfpc,       \* position of the task calling Read and of the task calling Close
    nfDone,     \* c.done: "ch" or "nil"
    nfClosed,   \* the channel has been closed
    nfCloseOps, \* close(c.done) executed on the channel
    nfPanic,    \* a close panicked: "" | "closed channel" | "nil channel"
    nfReads,    \* Read calls made
    nfCloses,   \* Close calls made
    nfFirst,    \* the call that closed the channel first: "none" | "Read" | "Close"
    \* ReadMultiple
    rmpc,       \* position of the handler
    epc,        \* position of the encoder task
    colpc,      \* position of the collaborator's ReadMultiple
    responses,  \* responses buffered in the channel
    rspClosed,  \* responses has been closed
    rspSent,    \* responses the collaborator has sent
    nFiles,     \* len(req.Files), the capacity of responses
    rmErr       \* err, what the collaborator returned

sessVars == <<variant, doneVar, chClosed, taskpc, termErr, cur, canWrite, alive,
              wire, ticks, pc, arg, noop, first, overlap, hErr, pw, blk,
              submitted, accepted, paid, ctxDone, bodyDone, cnDone, bodyLeft,
              wops, failOp, late>>
decVars  == <<dKind, dFrames, dIn, dIns, dAtTag, dRes, dRes0>>
gateVars == <<attached, storedID, getErr, req, out, hnd, opCalls, errWrites, reply>>
fatalVars == <<errs, fpc, fatalErr, exit, fatalOut>>
bootVars == <<bpos, bpc, attempts, lastErr, retrying, logs, mu, readers, drives,
              slotWrites, exited, lkpc, lkPub, lkSlot, lkList, lookups, lkSeen>>
bulkVars == <<dvpc, dvN, dvIdx, dvErrs, dvSlots, dvWire, dvCanWrite, dvBroken,
              dvTicks, dvErrResp>>
scanVars == <<scpc, scRet, scErr, scUI, nspc, updates, updClosed, produced, fwpc,
              fwCur, outCh>>
notifyVars == <<nfpc, nfDone, nfClosed, nfCloseOps, nfPanic, nfReads, nfCloses, nfFirst>>
rmVars   == <<rmpc, epc, colpc, responses, rspClosed, rspSent, nFiles, rmErr>>
vars     == <<sessVars, decVars, gateVars, fatalVars, bootVars, bulkVars, scanVars,
              notifyVars, rmVars>>

(***************************************************************************)
(* Bounds                                                                  *)
(***************************************************************************)
MaxTicks  == 1   \* ticker ticks in one session
MaxBlocks == 2   \* Write calls in one session
MaxBody   == 1   \* chunks of request body
MaxFrames == 3   \* frames of a generated response stream
MaxIns    == 2   \* heartbeat bytes inserted into a generated stream
MaxWrap   == 1   \* layers of added context around an error
MaxBatch  == 2   \* disks in a batch given to checkDiskFatalErrs
MaxDisks  == 2   \* local endpoints of registerStorageRESTHandlers
MaxAttempts == 2 \* calls of createStorage for one disk
MaxLookups == 2  \* lookups made while the disks attach

Variants  == {"req", "resp", "stream"}
\* tasks that call the completion function; h1 names the one that calls first
Callers   == {"h1", "h2"}
\* tasks that call httpStreamResponse.Write; p1 names the one that writes first
Producers == {"p1", "p2"}
Errs      == {"nil", "eA", "eB"}   \* nil and two errors
BlockSet  == {<< >>, <<0>>, <<32, 2>>}
PayloadSet == {<<0>>, <<32, 1>>}

(***************************************************************************)
(* Bytes and frames                                                        *)
(***************************************************************************)
\* err.Error() as bytes
ErrText(e) ==
    CASE e = "eA" -> <<65>>
      [] e = "eB" -> <<66, 32>>
      [] OTHER    -> << >>

\* PutUint32 in big-endian byte order
PutUint32BigEndian(n) ==
    <<(n \div 16777216) % 256, (n \div 65536) % 256, (n \div 256) % 256, n % 256>>

\* binary.LittleEndian.PutUint32(tmp[1:], uint32(n))
\* (a length below 2^31 is its own uint32 value)
PutUint32(n) ==
    <<n % 256, (n \div 256) % 256, (n \div 65536) % 256, (n \div 16777216) % 256>>

\* Uint32 in big-endian byte order
Uint32BigEndian(b) == b[4] + 256 * b[3] + 65536 * b[2] + 16777216 * b[1]

\* binary.LittleEndian.Uint32(tmp[:])
Uint32(b) == b[1] + 256 * b[2] + 65536 * b[3] + 16777216 * b[4]

\* the bytes of the terminal frame for completion value e
TermBytes(e) == IF e = "nil" THEN <<0>> ELSE <<1>> \o ErrText(e)

\* tmp[0] = 2; PutUint32(tmp[1:], len(block)); write(tmp[:]); write(block)
BlockBytes(b) == <<2>> \o PutUint32(Len(b)) \o b

Tagged(bs, o) == [i \in 1..Len(bs) |-> [b |-> bs[i], o |-> o]]
Bytes(w)      == [i \in 1..Len(w) |-> w[i].b]

(***************************************************************************)
(* Client decoders                                                         *)
(***************************************************************************)
Result(res, err, tag, text, o) ==
    [res |-> res, err |-> err, tag |-> tag, text |-> text, out |-> o]

NoResult   == Result("none", "", 0, << >>, << >>)

Rest(s, i) == SubSeq(s, i + 1, Len(s))
Min(a, b)  == IF a < b THEN a ELSE b

\* RespDec whose reader goes on skipping filler bytes after the tag 0
RECURSIVE RespDecSkipsInPayload(_, _)
RespDecSkipsInPayload(s, i) ==
    IF i > Len(s) THEN Result("readerr", "EOF", 0, << >>, << >>)
    ELSE CASE s[i] = 0  -> Result("ok", "", 0, << >>,
                                  SelectSeq(Rest(s, i), LAMBDA x : x # 32))
           [] s[i] = 1  -> Result("error", "", 0, Rest(s, i), << >>)
           [] s[i] = 32 -> RespDecSkipsInPayload(s, i + 1)
           [] OTHER     -> Result("badtag", "", s[i], << >>, << >>)

\* waitForHTTPResponse from byte i of respBody on. res: "ok" (out is what the
\* returned reader yields), "error" (errors.New(text)), "readerr" (the read
\* error err), "badtag" (unexpected filler byte: tag)
RECURSIVE RespDec(_, _)
RespDec(s, i) ==
    IF i > Len(s) THEN Result("readerr", "EOF", 0, << >>, << >>)
    ELSE CASE s[i] = 0  -> Result("ok", "", 0, << >>, Rest(s, i))
           [] s[i] = 1  -> Result("error", "", 0, Rest(s, i), << >>)
           [] s[i] = 32 -> RespDec(s, i + 1)
           [] OTHER     -> Result("badtag", "", s[i], << >>, << >>)

waitForHTTPResponse(s) == RespDec(s, 1)

\* StreamDec that hands a short block on as if it were complete
RECURSIVE StreamDecNoLengthCheck(_, _, _)
StreamDecNoLengthCheck(s, i, o) ==
    IF i > Len(s) THEN Result("readerr", "EOF", 0, << >>, o)
    ELSE CASE s[i] = 0  -> Result("ok", "", 0, << >>, o \o Rest(s, i))
           [] s[i] = 1  -> Result("error", "", 0, Rest(s, i), o)
           [] s[i] = 2  ->
                IF Len(s) - i < 4
                THEN Result("readerr",
                            IF Len(s) = i THEN "EOF" ELSE "ErrUnexpectedEOF",
                            0, << >>, o)
                ELSE LET length == Uint32(SubSeq(s, i + 1, i + 4))
                         n      == Min(length, Len(s) - (i + 4))
                         o2     == o \o SubSeq(s, i + 5, i + 4 + n)
                     IN  StreamDecNoLengthCheck(s, i + 5 + n, o2)
           [] s[i] = 32 -> StreamDecNoLengthCheck(s, i + 1, o)
           [] OTHER     -> Result("badtag", "", s[i], << >>, o)

\* StreamDec that hands heartbeat bytes to the writer
RECURSIVE StreamDecKeepsFiller(_, _, _)
StreamDecKeepsFiller(s, i, o) ==
    IF i > Len(s) THEN Result("readerr", "EOF", 0, << >>, o)
    ELSE CASE s[i] = 0  -> Result("ok", "", 0, << >>, o \o Rest(s, i))
           [] s[i] = 1  -> Result("error", "", 0, Rest(s, i), o)
           [] s[i] = 2  ->
                IF Len(s) - i < 4
                THEN Result("readerr",
                            IF Len(s) = i THEN "EOF" ELSE "ErrUnexpectedEOF",
                            0, << >>, o)
                ELSE LET length == Uint32(SubSeq(s, i + 1, i + 4))
                         n      == Min(length, Len(s) - (i + 4))
                         o2     == o \o SubSeq(s, i + 5, i + 4 + n)
                     IN  IF n # length
                         THEN Result("unexpectedEOF", "ErrUnexpectedEOF", 0, << >>, o2)
                         ELSE StreamDecKeepsFiller(s, i + 5 + length, o2)
           [] s[i] = 32 -> StreamDecKeepsFiller(s, i + 1, o \o <<32>>)
           [] OTHER     -> Result("badtag", "", s[i], << >>, o)

\* waitForHTTPStream from byte i of respBody on, o being what was written to
\* w so far. res as for RespDec, and "unexpectedEOF" for a short block.
RECURSIVE StreamDec(_, _, _)
StreamDec(s, i, o) ==
    IF i > Len(s) THEN Result("readerr", "EOF", 0, << >>, o)
    ELSE CASE s[i] = 0  -> Result("ok", "", 0, << >>, o \o Rest(s, i))
           [] s[i] = 1  -> Result("error", "", 0, Rest(s, i), o)
           [] s[i] = 2  ->
                \* io.ReadFull(respBody, tmp[:4])
                IF Len(s) - i < 4
                THEN Result("readerr",
                            IF Len(s) = i THEN "EOF" ELSE "ErrUnexpectedEOF",
                            0, << >>, o)
                ELSE LET length == Uint32(SubSeq(s, i + 1, i + 4))
                         \* io.CopyBuffer(w, io.LimitReader(respBody, length), buf)
                         n      == Min(length, Len(s) - (i + 4))
                         o2     == o \o SubSeq(s, i + 5, i + 4 + n)
                     IN  IF n # length
                         THEN Result("unexpectedEOF", "ErrUnexpectedEOF", 0, << >>, o2)
                         ELSE StreamDec(s, i + 5 + length, o2)
           [] s[i] = 32 -> StreamDec(s, i + 1, o)
           [] OTHER     -> Result("badtag", "", s[i], << >>, o)

waitForHTTPStream(s) == StreamDec(s, 1, << >>)

(***************************************************************************)
(* Transport and the owner task's write closure                            *)
(***************************************************************************)
\* w.Write(bs) on the http.ResponseWriter: n bytes are accepted; ok iff no
\* error and n = len(bs). An error is sticky (the connection is gone): later
\* writes accept nothing. A failing write accepts nothing or all but the last
\* byte.
WWrite(bs, o, n, ok) ==
    /\ n \in 0..Len(bs)
    /\ ok => (alive /\ n = Len(bs))
    /\ ~ok => n \in {0, Len(bs) - 1}
    /\ ~alive => n = 0
    /\ wire' = wire \o Tagged(SubSeq(bs, 1, n), o)
    /\ alive' = (alive /\ ok)

\* the write closure that calls w.Write whatever canWrite is
TaskWriteOpsNoFlag(bs, o, n, ok, fl) ==
    /\ WWrite(bs, o, n, ok)
    /\ canWrite' = (canWrite /\ ok)
    /\ wops' = wops + 1 + (IF ok THEN fl ELSE 0)
    /\ failOp' = IF ok \/ failOp > 0 THEN failOp ELSE wops + 1

\* write := func(b []byte) { if canWrite { n, err := w.Write(b); if err != nil
\* || n != len(b) { canWrite = false } } }. Two consecutive write calls of the
\* task (tag and text, header and payload) are one call on the concatenation:
\* the second is skipped once the first failed. With fl = 1 the write is
\* followed by if canWrite { w.(http.Flusher).Flush() }.
TaskWriteOps(bs, o, n, ok, fl) ==
    IF canWrite
    THEN /\ WWrite(bs, o, n, ok)
         /\ canWrite' = ok
         /\ wops' = wops + 1 + (IF ok THEN fl ELSE 0)
         /\ failOp' = IF ok THEN failOp ELSE wops + 1
    ELSE /\ n = 0 /\ ~ok
         /\ UNCHANGED <<wire, alive, canWrite, wops, failOp>>

\* the write closure alone (terminal frame)
TaskWrite(bs, o, n, ok) == TaskWriteOps(bs, o, n, ok, 0)

\* the write closure followed by the guarded Flush (heartbeat, block)
TaskWriteFlush(bs, o, n, ok) == TaskWriteOps(bs, o, n, ok, 1)

\* StartPc without the wait for the body
StartPcNoDrain(v) == "loop"

\* where the owner task starts: keepHTTPReqResponseAlive first waits for the
\* body ("Wait for body to be read"), the other two start the ticker at once
StartPc(v) == IF v = "req" THEN "drain" ELSE "loop"

\* a panic (send on closed channel) ends the process
Crashed == \E c \in Callers : pc[c] = "panic"

InProgress(c) == pc[c] \notin {"idle", "ret"}

(***************************************************************************)
(* Owner task (the goroutine started by the three constructors)            *)
(***************************************************************************)
\* TaskDrainCtxDone that ends the session with an error of its own
TaskDrainCtxDoneEnds ==
    /\ ~Crashed /\ taskpc = "drain" /\ ctxDone
    /\ taskpc' = "term"
    /\ termErr' = "eB"
    /\ UNCHANGED <<variant, doneVar, chClosed, cur, canWrite, alive, wire,
                   ticks, pc, arg, noop, first, overlap, hErr, pw, blk, submitted,
                   accepted, paid, ctxDone, bodyDone, cnDone, bodyLeft>>
    /\ UNCHANGED <<wops, failOp, late>>

\* keepHTTPReqResponseAlive, first select: case <-ctx.Done()
TaskDrainCtxDone ==
    /\ ~Crashed /\ taskpc = "drain" /\ ctxDone
    /\ taskpc' = "loop"
    /\ UNCHANGED <<variant, doneVar, chClosed, termErr, cur, canWrite, alive, wire,
                   ticks, pc, arg, noop, first, overlap, hErr, pw, blk, submitted,
                   accepted, paid, ctxDone, bodyDone, cnDone, bodyLeft>>
    /\ UNCHANGED <<wops, failOp, late>>

\* keepHTTPReqResponseAlive, first select: case <-bodyDoneCh
TaskDrainBodyDone ==
    /\ ~Crashed /\ taskpc = "drain" /\ bodyDone
    /\ taskpc' = "loop"
    /\ UNCHANGED <<variant, doneVar, chClosed, termErr, cur, canWrite, alive, wire,
                   ticks, pc, arg, noop, first, overlap, hErr, pw, blk, submitted,
                   accepted, paid, ctxDone, bodyDone, cnDone, bodyLeft>>
    /\ UNCHANGED <<wops, failOp, late>>

\* case <-ticker.C: write([]byte{32}); if canWrite { Flush() }
TaskTick(n, ok) ==
    /\ ~Crashed /\ taskpc = "loop" /\ ticks < MaxTicks
    /\ TaskWriteFlush(<<32>>, "hb", n, ok)
    /\ UNCHANGED late
    /\ ticks' = ticks + 1
    /\ UNCHANGED <<variant, doneVar, chClosed, taskpc, termErr, cur, pc, arg, noop,
                   first, overlap, hErr, pw, blk, submitted, accepted, paid,
                   ctxDone, bodyDone, cnDone, bodyLeft>>

\* case err := <-doneCh (either select): the rendezvous with a caller blocked
\* in doneCh <- err
TaskRecvDone(c) ==
    /\ ~Crashed /\ taskpc \in {"drain", "loop"}
    /\ pc[c] = "sending" /\ ~chClosed
    /\ termErr' = arg[c]
    /\ first' = c
    /\ taskpc' = "term"
    /\ pc' = [pc EXCEPT ![c] = "sent"]
    /\ UNCHANGED <<variant, doneVar, chClosed, cur, canWrite, alive, wire, ticks,
                   arg, noop, overlap, hErr, pw, blk, submitted, accepted, paid,
                   ctxDone, bodyDone, cnDone, bodyLeft>>
    /\ UNCHANGED <<wops, failOp, late>>

\* TaskFinish without the return: the task goes back to its select loop
TaskFinishNoReturn(n, ok) ==
    /\ ~Crashed /\ taskpc = "term"
    /\ TaskWrite(TermBytes(termErr), "term", n, ok)
    /\ UNCHANGED late
    /\ chClosed' = TRUE
    /\ taskpc' = "loop"
    /\ UNCHANGED <<variant, doneVar, termErr, cur, ticks, pc, arg, noop, first,
                   overlap, hErr, pw, blk, submitted, accepted, paid, ctxDone,
                   bodyDone, cnDone, bodyLeft>>

\* TaskFinish without close(doneCh)
TaskFinishNoClose(n, ok) ==
    /\ ~Crashed /\ taskpc = "term"
    /\ TaskWrite(TermBytes(termErr), "term", n, ok)
    /\ UNCHANGED late
    /\ taskpc' = "done"
    /\ UNCHANGED <<variant, doneVar, chClosed, termErr, cur, ticks, pc, arg, noop,
                   first, overlap, hErr, pw, blk, submitted, accepted, paid, ctxDone,
                   bodyDone, cnDone, bodyLeft>>

\* after the receive: write the terminal frame, close(doneCh), return
TaskFinish(n, ok) ==
    /\ ~Crashed /\ taskpc = "term"
    /\ TaskWrite(TermBytes(termErr), "term", n, ok)
    /\ UNCHANGED late
    /\ chClosed' = TRUE
    /\ taskpc' = "done"
    /\ UNCHANGED <<variant, doneVar, termErr, cur, ticks, pc, arg, noop, first,
                   overlap, hErr, pw, blk, submitted, accepted, paid, ctxDone,
                   bodyDone, cnDone, bodyLeft>>

\* TaskRecvBlock that also receives while the previous block is unwritten
TaskRecvBlockBuffered(p) ==
    /\ ~Crashed /\ variant = "stream" /\ taskpc \in {"loop", "blk"}
    /\ pw[p] = "sending"
    /\ cur' = blk[p]
    /\ accepted' = Append(accepted, blk[p])
    /\ taskpc' = "blk"
    /\ pw' = [pw EXCEPT ![p] = "idle"]
    /\ UNCHANGED <<variant, doneVar, chClosed, termErr, canWrite, alive, wire, ticks,
                   pc, arg, noop, first, overlap, hErr, blk, submitted, paid,
                   ctxDone, bodyDone, cnDone, bodyLeft>>
    /\ UNCHANGED <<wops, failOp, late>>

\* streamHTTPResponse: case block := <-blockCh, the rendezvous with a producer
TaskRecvBlock(p) ==
    /\ ~Crashed /\ variant = "stream" /\ taskpc = "loop"
    /\ pw[p] = "sending"
    /\ cur' = blk[p]
    /\ accepted' = Append(accepted, blk[p])
    /\ taskpc' = "blk"
    /\ pw' = [pw EXCEPT ![p] = "idle"]
    /\ UNCHANGED <<variant, doneVar, chClosed, termErr, canWrite, alive, wire, ticks,
                   pc, arg, noop, first, overlap, hErr, blk, submitted, paid,
                   ctxDone, bodyDone, cnDone, bodyLeft>>
    /\ UNCHANGED <<wops, failOp, late>>

\* streamHTTPResponse: write(tmp[:]); write(block); if canWrite { Flush() }
TaskWriteBlock(n, ok) ==
    /\ ~Crashed /\ taskpc = "blk"
    /\ TaskWriteFlush(BlockBytes(cur), "blk", n, ok)
    /\ UNCHANGED late
    /\ taskpc' = "loop"
    /\ cur' = << >>
    /\ UNCHANGED <<variant, doneVar, chClosed, termErr, ticks, pc, arg, noop, first,
                   overlap, hErr, pw, blk, submitted, accepted, paid, ctxDone,
                   bodyDone, cnDone, bodyLeft>>

(***************************************************************************)
(* The completion function (the returned func(error), CloseWithError)      *)
(***************************************************************************)
\* DoneBegin with h.err = err placed before the nil check
DoneBeginSetsErrFirst(c, e) ==
    /\ ~Crashed /\ pc[c] = "idle"
    /\ variant = "stream" => \A d \in Callers \ {c} : ~InProgress(d)
    /\ c = "h2" => pc["h1"] # "idle"
    /\ arg' = [arg EXCEPT ![c] = e]
    /\ hErr' = IF variant = "stream" THEN e ELSE hErr
    /\ overlap' = (overlap \/ \E d \in Callers \ {c} : InProgress(d))
    /\ IF doneVar = "nil"
       THEN /\ pc' = [pc EXCEPT ![c] = "ret"]
            /\ noop' = [noop EXCEPT ![c] = TRUE]
       ELSE /\ pc' = [pc EXCEPT ![c] = "send0"]
            /\ noop' = noop
    /\ UNCHANGED <<variant, doneVar, chClosed, taskpc, termErr, cur, canWrite, alive,
                   wire, ticks, first, pw, blk, submitted, accepted, paid,
                   ctxDone, bodyDone, cnDone, bodyLeft>>
    /\ UNCHANGED <<wops, failOp, late>>

\* if doneCh == nil { return }
\* CloseWithError has two call sites, ReadMultiple's encoder task and, after
\* wg.Wait(), its handler: calls on one stream never overlap. Calls of the
\* func(error) of the two keep-alive constructors may overlap.
DoneBegin(c, e) ==
    /\ ~Crashed /\ pc[c] = "idle"
    /\ variant = "stream" => \A d \in Callers \ {c} : ~InProgress(d)
    /\ c = "h2" => pc["h1"] # "idle"
    /\ arg' = [arg EXCEPT ![c] = e]
    /\ overlap' = (overlap \/ \E d \in Callers \ {c} : InProgress(d))
    /\ IF doneVar = "nil"
       THEN /\ pc' = [pc EXCEPT ![c] = "ret"]
            /\ noop' = [noop EXCEPT ![c] = TRUE]
       ELSE /\ pc' = [pc EXCEPT ![c] = "send0"]
            /\ noop' = noop
    /\ UNCHANGED <<variant, doneVar, chClosed, taskpc, termErr, cur, canWrite, alive,
                   wire, ticks, first, hErr, pw, blk, submitted, accepted, paid,
                   ctxDone, bodyDone, cnDone, bodyLeft>>
    /\ UNCHANGED <<wops, failOp, late>>

\* doneCh <- err: the channel operand is read again; a nil channel blocks forever
DoneSendEval(c) ==
    /\ ~Crashed /\ pc[c] = "send0"
    /\ pc' = [pc EXCEPT ![c] = IF doneVar = "nil" THEN "stuck" ELSE "sending"]
    /\ UNCHANGED <<variant, doneVar, chClosed, taskpc, termErr, cur, canWrite, alive,
                   wire, ticks, arg, noop, first, overlap, hErr, pw, blk, submitted,
                   accepted, paid, ctxDone, bodyDone, cnDone, bodyLeft>>
    /\ UNCHANGED <<wops, failOp, late>>

\* doneCh <- err on a closed channel panics
DonePanic(c) ==
    /\ ~Crashed /\ pc[c] = "sending" /\ chClosed
    /\ pc' = [pc EXCEPT ![c] = "panic"]
    /\ UNCHANGED <<variant, doneVar, chClosed, taskpc, termErr, cur, canWrite, alive,
                   wire, ticks, arg, noop, first, overlap, hErr, pw, blk, submitted,
                   accepted, paid, ctxDone, bodyDone, cnDone, bodyLeft>>
    /\ UNCHANGED <<wops, failOp, late>>

\* DoneRecvEval without the wait for the channel to be closed
DoneRecvEvalNoWait(c) ==
    /\ ~Crashed /\ pc[c] = "sent"
    /\ hErr' = IF variant = "stream" THEN arg[c] ELSE hErr
    /\ pc' = [pc EXCEPT ![c] = "clr"]
    /\ UNCHANGED <<variant, doneVar, chClosed, taskpc, termErr, cur, canWrite, alive,
                   wire, ticks, arg, noop, first, overlap, pw, blk, submitted,
                   accepted, paid, ctxDone, bodyDone, cnDone, bodyLeft>>
    /\ UNCHANGED <<wops, failOp, late>>

\* (CloseWithError only: h.err = err) then <-doneCh: the operand is read again
DoneRecvEval(c) ==
    /\ ~Crashed /\ pc[c] = "sent"
    /\ hErr' = IF variant = "stream" THEN arg[c] ELSE hErr
    /\ pc' = [pc EXCEPT ![c] = IF doneVar = "nil" THEN "stuck" ELSE "waiting"]
    /\ UNCHANGED <<variant, doneVar, chClosed, taskpc, termErr, cur, canWrite, alive,
                   wire, ticks, arg, noop, first, overlap, pw, blk, submitted,
                   accepted, paid, ctxDone, bodyDone, cnDone, bodyLeft>>
    /\ UNCHANGED <<wops, failOp, late>>

\* <-doneCh returns because the channel was closed
DoneRecvClosed(c) ==
    /\ ~Crashed /\ pc[c] = "waiting" /\ chClosed
    /\ pc' = [pc EXCEPT ![c] = "clr"]
    /\ UNCHANGED <<variant, doneVar, chClosed, taskpc, termErr, cur, canWrite, alive,
                   wire, ticks, arg, noop, first, overlap, hErr, pw, blk, submitted,
                   accepted, paid, ctxDone, bodyDone, cnDone, bodyLeft>>
    /\ UNCHANGED <<wops, failOp, late>>

\* <-doneCh returns because it met the send of another caller
DoneRecvSender(c, d) ==
    /\ ~Crashed /\ c # d /\ pc[c] = "waiting" /\ pc[d] = "sending" /\ ~chClosed
    /\ pc' = [pc EXCEPT ![c] = "clr", ![d] = "sent"]
    /\ UNCHANGED <<variant, doneVar, chClosed, taskpc, termErr, cur, canWrite, alive,
                   wire, ticks, arg, noop, first, overlap, hErr, pw, blk, submitted,
                   accepted, paid, ctxDone, bodyDone, cnDone, bodyLeft>>
    /\ UNCHANGED <<wops, failOp, late>>

\* doneCh = nil; return
DoneClear(c) ==
    /\ ~Crashed /\ pc[c] = "clr"
    /\ doneVar' = "nil"
    /\ pc' = [pc EXCEPT ![c] = "ret"]
    /\ UNCHANGED <<variant, chClosed, taskpc, termErr, cur, canWrite, alive, wire,
                   ticks, arg, noop, first, overlap, hErr, pw, blk, submitted,
                   accepted, paid, ctxDone, bodyDone, cnDone, bodyLeft>>
    /\ UNCHANGED <<wops, failOp, late>>

(***************************************************************************)
(* Producers, the handler's own payload, request body and context          *)
(***************************************************************************)
\* a call of CloseWithError, or of the func(error) of a keep-alive, has returned
Completed == \E c \in Callers : pc[c] = "ret"

\* Write that hands the block off whatever h.err is
WriteNoErrCheck(p, b) ==
    /\ ~Crashed /\ variant = "stream" /\ pw[p] = "idle"
    /\ Len(submitted) < MaxBlocks
    /\ p = "p2" => Len(submitted) > 0
    /\ submitted' = Append(submitted, <<p, b>>)
    /\ IF Len(b) = 0
       THEN UNCHANGED <<pw, blk>>
       ELSE /\ pw' = [pw EXCEPT ![p] = "sending"]
            /\ blk' = [blk EXCEPT ![p] = b]
    /\ late' = IF Completed THEN Append(late, <<p, b>>) ELSE late
    /\ UNCHANGED <<variant, doneVar, chClosed, taskpc, termErr, cur, canWrite, alive,
                   wire, ticks, pc, arg, noop, first, overlap, hErr, accepted, paid,
                   ctxDone, bodyDone, cnDone, bodyLeft>>
    /\ UNCHANGED <<wops, failOp>>

\* httpStreamResponse.Write(b), up to the hand-off h.block <- tmp
Write(p, b) ==
    /\ ~Crashed /\ variant = "stream" /\ pw[p] = "idle"
    /\ Len(submitted) < MaxBlocks
    /\ p = "p2" => Len(submitted) > 0
    /\ submitted' = Append(submitted, <<p, b>>)
    /\ IF Len(b) = 0 \/ hErr # "nil"
       THEN UNCHANGED <<pw, blk>>
       ELSE /\ pw' = [pw EXCEPT ![p] = "sending"]
            /\ blk' = [blk EXCEPT ![p] = b]
    /\ late' = IF Completed THEN Append(late, <<p, b>>) ELSE late
    /\ UNCHANGED <<variant, doneVar, chClosed, taskpc, termErr, cur, canWrite, alive,
                   wire, ticks, pc, arg, noop, first, overlap, hErr, accepted, paid,
                   ctxDone, bodyDone, cnDone, bodyLeft>>
    /\ UNCHANGED <<wops, failOp>>

\* DeleteVersionsHandler / VerifyFileHandler: done(nil); encoder.Encode(...)
\* StatInfoFile: done(err); if err != nil { return }; msgp.Encode(w, ...)
HandlerPayload(c, P, n, ok) ==
    /\ ~Crashed /\ variant = "resp" /\ pc[c] = "ret" /\ arg[c] = "nil" /\ ~paid
    /\ WWrite(P, "pay", n, ok)
    /\ paid' = TRUE
    /\ UNCHANGED <<variant, doneVar, chClosed, taskpc, termErr, cur, canWrite, ticks,
                   pc, arg, noop, first, overlap, hErr, pw, blk, submitted, accepted,
                   ctxDone, bodyDone, cnDone, bodyLeft>>
    /\ UNCHANGED <<wops, failOp, late>>

\* closeNotifier: if c.done != nil { close(c.done); c.done = nil }
Notify ==
    IF cnDone # "nil"
    THEN bodyDone' = TRUE /\ cnDone' = "nil"
    ELSE UNCHANGED <<bodyDone, cnDone>>

\* closeNotifier.Read: data without error, or an error (EOF once the body is
\* exhausted, a transport error at any time)
closeNotifierRead(withErr) ==
    /\ ~Crashed /\ variant = "req"
    /\ IF withErr
       THEN Notify /\ UNCHANGED bodyLeft
       ELSE /\ bodyLeft > 0
            /\ bodyLeft' = bodyLeft - 1
            /\ UNCHANGED <<bodyDone, cnDone>>
    /\ UNCHANGED <<variant, doneVar, chClosed, taskpc, termErr, cur, canWrite, alive,
                   wire, ticks, pc, arg, noop, first, overlap, hErr, pw, blk,
                   submitted, accepted, paid, ctxDone>>
    /\ UNCHANGED <<wops, failOp, late>>

\* closeNotifier.Close
closeNotifierClose ==
    /\ ~Crashed /\ variant = "req"
    /\ Notify
    /\ UNCHANGED <<variant, doneVar, chClosed, taskpc, termErr, cur, canWrite, alive,
                   wire, ticks, pc, arg, noop, first, overlap, hErr, pw, blk,
                   submitted, accepted, paid, ctxDone, bodyLeft>>
    /\ UNCHANGED <<wops, failOp, late>>

\* the inbound call's context is cancelled or its deadline passes
CtxCancel ==
    /\ ~Crashed /\ variant = "req" /\ ~ctxDone
    /\ ctxDone' = TRUE
    /\ UNCHANGED <<variant, doneVar, chClosed, taskpc, termErr, cur, canWrite, alive,
                   wire, ticks, pc, arg, noop, first, overlap, hErr, pw, blk,
                   submitted, accepted, paid, bodyDone, cnDone, bodyLeft>>
    /\ UNCHANGED <<wops, failOp, late>>

(***************************************************************************)
(* Disk access gateway                                                     *)
(***************************************************************************)
\* an error value: its root condition under depth layers of added context
Err(root, depth) == [root |-> root, depth |-> depth]
NoErr == Err("nil", 0)

\* unwrapAll: the root condition of a wrapped error
unwrapAll(err) == [err EXCEPT !.depth = 0]

\* const DefaultSkewTime = 15 * time.Minute, in seconds
DefaultSkewTime == 900

ActiveAccessKey == "minio"
DiskIDs   == {"d1", "d2"}
GetErrs   == {NoErr, Err("errUnformattedDisk", 0), Err("errDiskNotFound", 1)}

\* a span of time in whole seconds, d days and s seconds of the same sign; the
\* int64 nanosecond count of time.Duration does not fit an integer of the model
Dur(d, s) == [d |-> d, s |-> s]
Less(a, b) == a.d < b.d \/ (a.d = b.d /\ a.s < b.s)

\* time.Duration's largest and smallest value: 2^63 - 1 and -2^63 nanoseconds,
\* 106751 days 23:47:16.85 either way; the smallest is one step below the
\* negation of the largest
maxDuration == Dur(106751, 85636)
minDuration == Dur(0 - 106751, 0 - 85637)

\* requestTime minus utcNow, as instants: the skew boundary and one second
\* beyond it either way, 274 years in the past, and timestamps more than 292
\* years away (X-Minio-Time: 1700-01-01T00:00:00Z parses as RFC3339)
Deltas ==
    {Dur(0, 0 - 901), Dur(0, 0 - 900), Dur(0, 0), Dur(0, 900), Dur(0, 901),
     Dur(0 - 100000, 0), Dur(0 - 106752, 0), Dur(106752, 0)}

\* an HTTP request as the validation reads it
HTTPRequests ==
    [path : {"http"}, diskID : {""} \cup DiskIDs,
     tok : {"none", "malformed", "ok"}, verifies : BOOLEAN,
     accessKey : {"minio", "other"}, subject : {"minio", "other"},
     audience : {"q1", "q2"}, rawQuery : {"q1", "q2"},
     timeParses : BOOLEAN, delta : Deltas, formOK : BOOLEAN]

\* an RPC call carries only its parameters
RPCRequest(id) ==
    [path |-> "rpc", diskID |-> id, tok |-> "none", verifies |-> FALSE,
     accessKey |-> "other", subject |-> "other", audience |-> "q1",
     rawQuery |-> "q1", timeParses |-> FALSE, delta |-> Dur(0, 0), formOK |-> FALSE]

NoReq == [RPCRequest("") EXCEPT !.path = "none"]

\* ok: the validation's return value; wrote, status, body: the error response;
\* err: the error reported; consulted: GetDiskID was called; hadDisk, hadID,
\* hadErr: the registry slot and the collaborator's answer at the time of the call
Outcome(ok, wrote, status, err, consulted) ==
    [ok |-> ok, wrote |-> wrote, status |-> status, body |-> err.root,
     err |-> err, consulted |-> consulted,
     hadDisk |-> attached, hadID |-> storedID, hadErr |-> getErr]

NoOut == [ok |-> FALSE, wrote |-> FALSE, status |-> 0, body |-> "nil",
          err |-> NoErr, consulted |-> FALSE,
          hadDisk |-> FALSE, hadID |-> "d1", hadErr |-> NoErr]

\* StatusOf with errDiskNotFound among the not-found conditions
StatusOfDiskNotFoundIs404(err) ==
    LET e == unwrapAll(err).root
    IN  CASE e = "errDiskStale" -> 412
          [] e \in {"errDiskNotFound", "errFileNotFound", "errFileVersionNotFound"} -> 404
          [] e \in {"errInvalidAccessKeyID", "errAccessKeyDisabled", "errNoAuthToken",
                    "errMalformedAuth", "errAuthentication", "errSkewedAuthTime"} -> 401
          [] e \in {"context.Canceled", "context.DeadlineExceeded"} -> 499
          [] OTHER -> 403

\* StatusOf without err = unwrapAll(err): a wrapped error equals no condition
StatusOfNoUnwrap(err) ==
    LET e == IF err.depth > 0 THEN "wrapped" ELSE err.root
    IN  CASE e = "errDiskStale" -> 412
          [] e \in {"errFileNotFound", "errFileVersionNotFound"} -> 404
          [] e \in {"errInvalidAccessKeyID", "errAccessKeyDisabled", "errNoAuthToken",
                    "errMalformedAuth", "errAuthentication", "errSkewedAuthTime"} -> 401
          [] e \in {"context.Canceled", "context.DeadlineExceeded"} -> 499
          [] OTHER -> 403

\* writeErrorResponse: the status written for err
StatusOf(err) ==
    LET e == unwrapAll(err).root
    IN  CASE e = "errDiskStale" -> 412
          [] e \in {"errFileNotFound", "errFileVersionNotFound"} -> 404
          [] e \in {"errInvalidAccessKeyID", "errAccessKeyDisabled", "errNoAuthToken",
                    "errMalformedAuth", "errAuthentication", "errSkewedAuthTime"} -> 401
          [] e \in {"context.Canceled", "context.DeadlineExceeded"} -> 499
          [] OTHER -> 403

writeErrorResponse(err, consulted) ==
    Outcome(FALSE, TRUE, StatusOf(err), unwrapAll(err), consulted)

\* what a handler reported after the collaborator returned cause: the error
\* response w it wrote (status 0: none)
Reply(cause, w) ==
    [cause |-> cause, err |-> w.err, status |-> w.status, body |-> w.body]

NoReply == Reply(NoErr, NoOut)

\* error conditions a collaborator's operation can return, bare or wrapped
Roots ==
    {"errDiskStale", "errFileNotFound", "errFileVersionNotFound",
     "errInvalidAccessKeyID", "errAccessKeyDisabled", "errNoAuthToken",
     "errMalformedAuth", "errAuthentication", "errSkewedAuthTime",
     "context.Canceled", "context.DeadlineExceeded",
     "errDiskNotFound", "errVolumeExists"}

OpErrs == {NoErr} \cup {Err(r, d) : r \in Roots, d \in 0..MaxWrap}

\* requestTime.Sub(utcNow) for instants x apart: time.Time.Sub returns the
\* largest or smallest Duration when the difference does not fit
Sub(x) ==
    IF Less(maxDuration, x) THEN maxDuration
    ELSE IF Less(x, minDuration) THEN minDuration
    ELSE x

\* delta *= -1 on an int64: the smallest Duration has no negation and stays
Neg(a) == IF a = minDuration THEN minDuration ELSE Dur(0 - a.d, 0 - a.s)

\* if delta < 0 { delta *= -1 }
Abs(x) == IF Less(x, Dur(0, 0)) THEN Neg(x) ELSE x

storageServerRequestValidate(r) ==
    IF r.tok = "none" THEN Err("errNoAuthToken", 0)
    ELSE IF r.tok = "malformed" THEN Err("errMalformedAuth", 0)
    ELSE IF ~r.verifies THEN Err("errAuthentication", 0)
    ELSE IF ~(r.accessKey = ActiveAccessKey \/ r.subject = ActiveAccessKey)
         THEN Err("errAuthentication", 0)
    ELSE IF r.audience # r.rawQuery THEN Err("errAuthentication", 0)
    ELSE IF ~r.timeParses THEN Err("errMalformedAuth", 0)
    ELSE IF Less(Dur(0, DefaultSkewTime), Abs(Sub(r.delta)))
         THEN Err("errSkewedAuthTime", 0)
    ELSE NoErr

\* IsAuthValid without the check of the registry slot
IsAuthValidNoDiskCheck(r) == storageServerRequestValidate(r)

\* the error IsAuthValid writes, NoErr when it returns true
IsAuthValid(r) ==
    IF ~attached THEN Err("errDiskNotFound", 0)
    ELSE storageServerRequestValidate(r)

\* IsValid that compares an empty disk-id like any other
IsValidComparesEmpty(r) ==
    IF IsAuthValid(r) # NoErr THEN writeErrorResponse(IsAuthValid(r), FALSE)
    ELSE IF ~r.formOK THEN writeErrorResponse(Err("errParseForm", 0), FALSE)
    ELSE IF getErr # NoErr THEN writeErrorResponse(getErr, TRUE)
    ELSE IF r.diskID # storedID THEN writeErrorResponse(Err("errDiskStale", 0), TRUE)
    ELSE Outcome(TRUE, FALSE, 0, NoErr, TRUE)

IsValid(r) ==
    IF IsAuthValid(r) # NoErr THEN writeErrorResponse(IsAuthValid(r), FALSE)
    ELSE IF ~r.formOK THEN writeErrorResponse(Err("errParseForm", 0), FALSE)
    ELSE IF r.diskID = "" THEN Outcome(TRUE, FALSE, 0, NoErr, FALSE)
    ELSE IF getErr # NoErr THEN writeErrorResponse(getErr, TRUE)
    ELSE IF r.diskID # storedID THEN writeErrorResponse(Err("errDiskStale", 0), TRUE)
    ELSE Outcome(TRUE, FALSE, 0, NoErr, TRUE)

\* checkID's return value, and whether it called GetDiskID
checkID(wantID) ==
    IF ~attached THEN [ok |-> FALSE, consulted |-> FALSE]
    ELSE IF wantID = "" THEN [ok |-> TRUE, consulted |-> FALSE]
    ELSE IF getErr # NoErr THEN [ok |-> FALSE, consulted |-> TRUE]
    ELSE [ok |-> wantID = storedID, consulted |-> TRUE]

\* createStorage succeeds: the disk is published in the registry
createStorage(id, e) ==
    /\ req.path = "none" /\ ~attached
    /\ attached' = TRUE /\ storedID' = id /\ getErr' = e
    /\ UNCHANGED <<req, out, hnd, opCalls, errWrites, reply>>

\* the collaborator's identity changes (the drive is reformatted, replaced or
\* becomes unreadable); GetDiskID fetches it live
GetDiskIDChanges(id, e) ==
    /\ req.path = "none" /\ attached
    /\ <<id, e>> # <<storedID, getErr>>
    /\ storedID' = id /\ getErr' = e
    /\ UNCHANGED <<attached, req, out, hnd, opCalls, errWrites, reply>>

\* the handler's first step on an HTTP request: if !s.IsValid(w, r) { return }
HTTPValidate(h, r) ==
    /\ req.path = "none"
    /\ req' = r
    /\ out' = IsValid(r)
    /\ hnd' = h
    /\ errWrites' = IF IsValid(r).wrote THEN 1 ELSE 0
    /\ UNCHANGED <<attached, storedID, getErr, opCalls, reply>>

\* HealthHandler: s.IsValid(w, r)
HealthHandler(r) == HTTPValidate("Health", r)

\* MakeVolHandler up to the collaborator's call
MakeVolHandler(r) == HTTPValidate("MakeVol", r)

\* MakeVol with the call of the collaborator made whatever IsValid returned
MakeVolUnguarded(e) ==
    /\ hnd = "MakeVol" /\ opCalls = 0
    /\ opCalls' = 1
    /\ IF e # NoErr
       THEN /\ reply' = Reply(e, writeErrorResponse(e, FALSE))
            /\ errWrites' = errWrites + 1
       ELSE /\ reply' = Reply(e, NoOut)
            /\ UNCHANGED errWrites
    /\ UNCHANGED <<attached, storedID, getErr, req, out, hnd>>

\* MakeVolHandler after IsValid returned true: err := s.getStorage().MakeVol(...)
\* returns e; if err != nil { s.writeErrorResponse(w, err) }
MakeVol(e) ==
    /\ hnd = "MakeVol" /\ out.ok /\ opCalls = 0
    /\ opCalls' = 1
    /\ IF e # NoErr
       THEN /\ reply' = Reply(e, writeErrorResponse(e, FALSE))
            /\ errWrites' = errWrites + 1
       ELSE /\ reply' = Reply(e, NoOut)
            /\ UNCHANGED errWrites
    /\ UNCHANGED <<attached, storedID, getErr, req, out, hnd>>

\* an RPC handler's first step that reports a failed checkID as errDiskStale
RPCValidateReportsStale(h, id) ==
    /\ req.path = "none"
    /\ req' = RPCRequest(id)
    /\ out' = LET c == checkID(id)
              IN  IF c.ok THEN Outcome(TRUE, FALSE, 0, NoErr, c.consulted)
                  ELSE Outcome(FALSE, FALSE, 0, Err("errDiskStale", 0), c.consulted)
    /\ hnd' = h
    /\ UNCHANGED <<attached, storedID, getErr, opCalls, errWrites, reply>>

\* an RPC handler's first step: if !s.checkID(id) { return
\* grid.NewRemoteErr(errDiskNotFound) }
RPCValidate(h, id) ==
    /\ req.path = "none"
    /\ req' = RPCRequest(id)
    /\ out' = LET c == checkID(id)
              IN  IF c.ok THEN Outcome(TRUE, FALSE, 0, NoErr, c.consulted)
                  ELSE Outcome(FALSE, FALSE, 0, Err("errDiskNotFound", 0), c.consulted)
    /\ hnd' = h
    /\ UNCHANGED <<attached, storedID, getErr, opCalls, errWrites, reply>>

\* DiskInfoHandler up to the collaborator's call: checkID, else errDiskNotFound
DiskInfoHandler(id) == RPCValidate("DiskInfo", id)

\* StatVolHandler up to the collaborator's call
StatVolHandler(id) == RPCValidate("StatVol", id)

\* StatVolHandler after checkID returned true: s.getStorage().StatVol(...)
\* returns e; if err != nil { return nil, grid.NewRemoteErr(err) }
StatVol(e) ==
    /\ hnd = "StatVol" /\ out.ok /\ opCalls = 0
    /\ opCalls' = 1
    /\ reply' = [cause |-> e, err |-> e, status |-> 0, body |-> "nil"]
    /\ UNCHANGED <<attached, storedID, getErr, req, out, hnd, errWrites>>

(***************************************************************************)
(* Fatal error policy: checkDiskFatalErrs, logFatalErrs                    *)
(***************************************************************************)
\* the conditions checkDiskFatalErrs and logFatalErrs name, and one they do not
DiskRoots ==
    {"errUnsupportedDisk", "errDiskAccessDenied", "errFileAccessDenied",
     "errDiskNotDir", "errFaultyDisk", "errXLBackend", "errDiskFull",
     "errUnformattedDisk"}

\* what a disk of a batch reports: nil, or a condition bare or wrapped
DiskErrs == {NoErr} \cup {Err(r, d) : r \in DiskRoots, d \in 0..MaxWrap}

\* sequences over S of length 0..n
SeqsUpTo(S, n) == UNION {[1..k -> S] : k \in 0..n}

\* errors.Is(err, target) for a sentinel target
Is(err, target) == err # NoErr /\ err.root = target

\* countErrs(errs, err): the elements of errs that are err
countErrs(es, target) == Cardinality({i \in DOMAIN es : Is(es[i], target)})

\* checkDiskFatalErrs that has no case for errFileAccessDenied
checkDiskFatalErrsNoFileAccess(es) ==
    IF countErrs(es, "errUnsupportedDisk") = Len(es) THEN Err("errUnsupportedDisk", 0)
    ELSE IF countErrs(es, "errDiskAccessDenied") = Len(es) THEN Err("errDiskAccessDenied", 0)
    ELSE IF countErrs(es, "errDiskNotDir") = Len(es) THEN Err("errDiskNotDir", 0)
    ELSE IF countErrs(es, "errFaultyDisk") = Len(es) THEN Err("errFaultyDisk", 0)
    ELSE IF countErrs(es, "errXLBackend") = Len(es) THEN Err("errXLBackend", 0)
    ELSE NoErr

checkDiskFatalErrs(es) ==
    IF countErrs(es, "errUnsupportedDisk") = Len(es) THEN Err("errUnsupportedDisk", 0)
    ELSE IF countErrs(es, "errDiskAccessDenied") = Len(es) THEN Err("errDiskAccessDenied", 0)
    ELSE IF countErrs(es, "errFileAccessDenied") = Len(es) THEN Err("errDiskAccessDenied", 0)
    ELSE IF countErrs(es, "errDiskNotDir") = Len(es) THEN Err("errDiskNotDir", 0)
    ELSE IF countErrs(es, "errFaultyDisk") = Len(es) THEN Err("errFaultyDisk", 0)
    ELSE IF countErrs(es, "errXLBackend") = Len(es) THEN Err("errXLBackend", 0)
    ELSE NoErr

\* logFatalErrs that only logs whenever exit is false
logFatalErrsLogsAll(err, ex) == IF ex THEN "fatal" ELSE "logged"

\* logFatalErrs(err, endpoint, exit): "fatal" for logger.Fatal, which ends the
\* process, "logged" for logger.LogOnceIf
logFatalErrs(err, ex) ==
    CASE Is(err, "errXLBackend") -> "fatal"
      [] Is(err, "errUnsupportedDisk") -> "fatal"
      [] Is(err, "errDiskNotDir") -> "fatal"
      [] Is(err, "errDiskAccessDenied") -> IF ~ex THEN "logged" ELSE "fatal"
      [] Is(err, "errFaultyDisk") -> IF ~ex THEN "logged" ELSE "fatal"
      [] Is(err, "errDiskFull") -> IF ~ex THEN "logged" ELSE "fatal"
      [] OTHER -> IF ~ex THEN "logged" ELSE "fatal"

\* err := checkDiskFatalErrs(errs)
CheckBatch ==
    /\ fpc = "start"
    /\ fatalErr' = checkDiskFatalErrs(errs)
    /\ fpc' = "checked"
    /\ UNCHANGED <<errs, exit, fatalOut>>

\* logFatalErrs(err, Endpoint{}, ex) on the error checkDiskFatalErrs returned
LogBatch(ex) ==
    /\ fpc = "checked" /\ fatalErr # NoErr
    /\ exit' = ex
    /\ fatalOut' = logFatalErrs(fatalErr, ex)
    /\ fpc' = "logged"
    /\ UNCHANGED <<errs, fatalErr>>

(***************************************************************************)
(* Disk bootstrap: registerStorageRESTHandlers, createStorage, getStorage  *)
(***************************************************************************)
Disks == 1..MaxDisks

\* what newXLStorage returns besides a disk: the three conditions logFatalErrs
\* ends the process for, two it names and logs, and one it does not name
AttachErrs ==
    {Err(r, 0) : r \in {"errXLBackend", "errUnsupportedDisk", "errDiskNotDir",
                        "errDiskAccessDenied", "errFaultyDisk",
                        "errUnformattedDisk"}}

\* bpc after createStorage returned for disk d in state st: at startup the loop
\* goes on to the next endpoint
AfterCreate(d, st) ==
    [e \in Disks |-> IF e = d THEN st
                     ELSE IF bpos = d /\ e = d + 1 THEN "new"
                     ELSE bpc[e]]

\* createStorage: xl, err := newXLStorage(endpoint, false) and the branch on err
newXLStorage(d, e) ==
    /\ ~exited /\ bpc[d] = "new"
    /\ attempts' = [attempts EXCEPT ![d] = @ + 1]
    /\ IF e = NoErr
       THEN /\ bpc' = [bpc EXCEPT ![d] = "lock"]
            /\ UNCHANGED <<bpos, lastErr, retrying, logs, exited>>
       ELSE /\ lastErr' = [lastErr EXCEPT ![d] = e]
            /\ IF logFatalErrs(e, FALSE) = "fatal"
               THEN /\ exited' = TRUE
                    /\ UNCHANGED <<bpos, bpc, retrying, logs>>
               ELSE /\ logs' = [logs EXCEPT ![d] = @ + 1]
                    /\ bpc' = AfterCreate(d, "sleep")
                    /\ retrying' = [retrying EXCEPT ![d] = TRUE]
                    /\ bpos' = IF bpos = d THEN d + 1 ELSE bpos
                    /\ UNCHANGED exited
    /\ UNCHANGED <<mu, readers, drives, slotWrites, lkpc, lkPub, lkSlot, lkList, lookups, lkSeen>>

\* the retry goroutine: time.Sleep(3 * time.Second) returns
Sleep(d) ==
    /\ ~exited /\ bpc[d] = "sleep" /\ attempts[d] < MaxAttempts
    /\ bpc' = [bpc EXCEPT ![d] = "new"]
    /\ UNCHANGED <<bpos, attempts, lastErr, retrying, logs, mu, readers, drives,
                   slotWrites, exited, lkpc, lkPub, lkSlot, lkList, lookups, lkSeen>>

\* Lock that is only granted once the loop over the endpoints has ended
LockAfterStartup(d) ==
    /\ ~exited /\ bpc[d] = "lock" /\ mu = 0 /\ readers = 0 /\ bpos > MaxDisks
    /\ mu' = d
    /\ bpc' = [bpc EXCEPT ![d] = "append"]
    /\ UNCHANGED <<bpos, attempts, lastErr, retrying, logs, readers, drives,
                   slotWrites, exited, lkpc, lkPub, lkSlot, lkList, lookups, lkSeen>>

\* globalLocalDrivesMu.Lock()
Lock(d) ==
    /\ ~exited /\ bpc[d] = "lock" /\ mu = 0 /\ readers = 0
    /\ mu' = d
    /\ bpc' = [bpc EXCEPT ![d] = "append"]
    /\ UNCHANGED <<bpos, attempts, lastErr, retrying, logs, readers, drives,
                   slotWrites, exited, lkpc, lkPub, lkSlot, lkList, lookups, lkSeen>>

\* globalLocalDrives = append(globalLocalDrives, storage)
AppendDrive(d) ==
    /\ ~exited /\ bpc[d] = "append"
    /\ drives' = Append(drives, d)
    /\ bpc' = [bpc EXCEPT ![d] = "slot"]
    /\ UNCHANGED <<bpos, attempts, lastErr, retrying, logs, mu, readers,
                   slotWrites, exited, lkpc, lkPub, lkSlot, lkList, lookups, lkSeen>>

\* a publication that builds the table anew and sets the slot of d in it
SetSlotInNewTable(d) ==
    /\ ~exited /\ bpc[d] = "slot"
    /\ slotWrites' = [e \in Disks |-> IF e = d THEN 1 ELSE 0]
    /\ bpc' = [bpc EXCEPT ![d] = "unlock"]
    /\ UNCHANGED <<bpos, attempts, lastErr, retrying, logs, mu, readers, drives,
                   exited, lkpc, lkPub, lkSlot, lkList, lookups, lkSeen>>

\* globalLocalSetDrives[endpoint.PoolIdx][endpoint.SetIdx][endpoint.DiskIdx] = storage
SetSlot(d) ==
    /\ ~exited /\ bpc[d] = "slot"
    /\ slotWrites' = [slotWrites EXCEPT ![d] = @ + 1]
    /\ bpc' = [bpc EXCEPT ![d] = "unlock"]
    /\ UNCHANGED <<bpos, attempts, lastErr, retrying, logs, mu, readers, drives,
                   exited, lkpc, lkPub, lkSlot, lkList, lookups, lkSeen>>

\* Unlock after which the retry loop goes round again
UnlockAndRetry(d) ==
    /\ ~exited /\ bpc[d] = "unlock"
    /\ mu' = 0
    /\ bpc' = AfterCreate(d, "sleep")
    /\ bpos' = IF bpos = d THEN d + 1 ELSE bpos
    /\ UNCHANGED <<attempts, lastErr, retrying, logs, readers, drives,
                   slotWrites, exited, lkpc, lkPub, lkSlot, lkList, lookups, lkSeen>>

\* the deferred globalLocalDrivesMu.Unlock() and return true: the loop of
\* registerStorageRESTHandlers continues, the retry goroutine returns
Unlock(d) ==
    /\ ~exited /\ bpc[d] = "unlock"
    /\ mu' = 0
    /\ bpc' = AfterCreate(d, "done")
    /\ bpos' = IF bpos = d THEN d + 1 ELSE bpos
    /\ UNCHANGED <<attempts, lastErr, retrying, logs, readers, drives,
                   slotWrites, exited, lkpc, lkPub, lkSlot, lkList, lookups, lkSeen>>

\* a lookup takes the shared side: globalLocalDrivesMu.RLock()
LookupRLock ==
    /\ ~exited /\ lkpc = "idle" /\ lookups < MaxLookups /\ mu = 0
    /\ readers' = readers + 1
    /\ lkpc' = "locked"
    /\ lkPub' = {d \in Disks : bpc[d] = "done"}
    /\ lkSlot' = {} /\ lkList' = {}
    /\ UNCHANGED <<bpos, bpc, attempts, lastErr, retrying, logs, mu, drives,
                   slotWrites, exited, lookups, lkSeen>>

\* getStorage: globalLocalSetDrives[s.poolIndex][s.setIndex][s.diskIndex]
LookupSlot ==
    /\ ~exited /\ lkpc = "locked"
    /\ lkSlot' = {d \in Disks : slotWrites[d] > 0}
    /\ lkpc' = "slot"
    /\ UNCHANGED <<bpos, bpc, attempts, lastErr, retrying, logs, mu, readers,
                   drives, slotWrites, exited, lkPub, lkList, lookups, lkSeen>>

\* a reader of globalLocalDrives under the same shared lock
LookupList ==
    /\ ~exited /\ lkpc = "slot"
    /\ lkList' = {drives[i] : i \in DOMAIN drives}
    /\ lkpc' = "list"
    /\ UNCHANGED <<bpos, bpc, attempts, lastErr, retrying, logs, mu, readers,
                   drives, slotWrites, exited, lkPub, lkSlot, lookups, lkSeen>>

\* the deferred globalLocalDrivesMu.RUnlock()
LookupRUnlock ==
    /\ ~exited /\ lkpc = "list"
    /\ readers' = readers - 1
    /\ lkpc' = "idle"
    /\ lookups' = lookups + 1
    /\ lkSeen' = lkSeen \cup lkSlot
    /\ UNCHANGED <<bpos, bpc, attempts, lastErr, retrying, logs, mu, drives,
                   slotWrites, exited, lkPub, lkSlot, lkList>>

(***************************************************************************)
(* Specification of one keep-alive session                                 *)
(***************************************************************************)
DecIdle ==
    /\ dKind = "resp" /\ dFrames = << >> /\ dIn = << >> /\ dIns = 0
    /\ dAtTag = TRUE /\ dRes = NoResult /\ dRes0 = NoResult

GateIdle ==
    /\ attached = FALSE /\ storedID = "d1" /\ getErr = NoErr
    /\ req = NoReq /\ out = NoOut
    /\ hnd = "none" /\ opCalls = 0 /\ errWrites = 0 /\ reply = NoReply

FatalIdle ==
    /\ errs = << >> /\ fpc = "start" /\ fatalErr = NoErr /\ exit = FALSE
    /\ fatalOut = "none"

BootIdle ==
    /\ bpos = 1 /\ bpc = [d \in Disks |-> "todo"]
    /\ attempts = [d \in Disks |-> 0] /\ lastErr = [d \in Disks |-> NoErr]
    /\ retrying = [d \in Disks |-> FALSE] /\ logs = [d \in Disks |-> 0]
    /\ mu = 0 /\ readers = 0 /\ drives = << >>
    /\ slotWrites = [d \in Disks |-> 0] /\ exited = FALSE
    /\ lkpc = "idle" /\ lkPub = {} /\ lkSlot = {} /\ lkList = {} /\ lookups = 0
    /\ lkSeen = {}

NoSlot == [kind |-> "nil", text |-> << >>]

BulkIdle ==
    /\ dvpc = "idle" /\ dvN = 0 /\ dvIdx = 0 /\ dvErrs = << >> /\ dvSlots = << >>
    /\ dvWire = << >> /\ dvCanWrite = TRUE /\ dvBroken = FALSE /\ dvTicks = 0
    /\ dvErrResp = NoErr

ScanIdle ==
    /\ scpc = "idle" /\ scRet = NoSlot /\ scErr = NoErr /\ scUI = 0 /\ nspc = "idle"
    /\ updates = << >> /\ updClosed = FALSE /\ produced = << >>
    /\ fwpc = "none" /\ fwCur = 0 /\ outCh = << >>

NotifyTasks == {"rd", "cl"}

NotifyIdle ==
    /\ nfpc = [t \in NotifyTasks |-> "idle"] /\ nfDone = "ch" /\ nfClosed = FALSE
    /\ nfCloseOps = 0 /\ nfPanic = "" /\ nfReads = 0 /\ nfCloses = 0
    /\ nfFirst = "none"

RMIdle ==
    /\ rmpc = "idle" /\ epc = "none" /\ colpc = "idle" /\ responses = 0
    /\ rspClosed = FALSE /\ rspSent = 0 /\ nFiles = 0 /\ rmErr = "nil"

SessIdle ==
    /\ variant = "resp" /\ doneVar = "ch" /\ chClosed = FALSE /\ taskpc = "loop"
    /\ termErr = "nil" /\ cur = << >> /\ canWrite = TRUE /\ alive = TRUE
    /\ wire = << >> /\ ticks = 0
    /\ pc = [c \in Callers |-> "idle"] /\ arg = [c \in Callers |-> "nil"]
    /\ noop = [c \in Callers |-> FALSE] /\ first = "none" /\ overlap = FALSE
    /\ hErr = "nil" /\ pw = [p \in Producers |-> "idle"]
    /\ blk = [p \in Producers |-> << >>] /\ submitted = << >> /\ accepted = << >>
    /\ paid = FALSE /\ ctxDone = FALSE /\ bodyDone = FALSE /\ cnDone = "ch"
    /\ bodyLeft = 0 /\ wops = 0 /\ failOp = 0 /\ late = << >>

\* the state right after keepHTTPReqResponseAlive(w, r), keepHTTPResponseAlive(w)
\* or streamHTTPResponse(w) returned
Init ==
    /\ variant \in Variants
    /\ doneVar = "ch" /\ chClosed = FALSE
    /\ taskpc = StartPc(variant)
    /\ termErr = "nil" /\ cur = << >> /\ canWrite = TRUE /\ alive = TRUE
    /\ wire = << >> /\ ticks = 0
    /\ pc = [c \in Callers |-> "idle"] /\ arg = [c \in Callers |-> "nil"]
    /\ noop = [c \in Callers |-> FALSE] /\ first = "none" /\ overlap = FALSE
    /\ hErr = "nil" /\ pw = [p \in Producers |-> "idle"]
    /\ blk = [p \in Producers |-> << >>] /\ submitted = << >> /\ accepted = << >>
    /\ paid = FALSE /\ ctxDone = FALSE /\ bodyDone = FALSE /\ cnDone = "ch"
    /\ bodyLeft = (IF variant = "req" THEN MaxBody ELSE 0)
    /\ wops = 0 /\ failOp = 0 /\ late = << >>
    /\ DecIdle /\ GateIdle /\ FatalIdle /\ BootIdle /\ BulkIdle /\ ScanIdle
    /\ NotifyIdle /\ RMIdle

SessNext ==
    \/ TaskDrainCtxDone
    \/ TaskDrainBodyDone
    \/ \E n \in 0..1, ok \in BOOLEAN : TaskTick(n, ok)
    \/ \E c \in Callers : TaskRecvDone(c)
    \/ \E n \in 0..3, ok \in BOOLEAN : TaskFinish(n, ok)
    \/ \E p \in Producers : TaskRecvBlock(p)
    \/ \E n \in 0..7, ok \in BOOLEAN : TaskWriteBlock(n, ok)
    \/ \E c \in Callers, e \in Errs : DoneBegin(c, e)
    \/ \E c \in Callers : DoneSendEval(c)
    \/ \E c \in Callers : DonePanic(c)
    \/ \E c \in Callers : DoneRecvEval(c)
    \/ \E c \in Callers : DoneRecvClosed(c)
    \/ \E c, d \in Callers : DoneRecvSender(c, d)
    \/ \E c \in Callers : DoneClear(c)
    \/ \E p \in Producers, b \in BlockSet : Write(p, b)
    \/ \E c \in Callers, P \in PayloadSet, n \in 0..2, ok \in BOOLEAN :
           HandlerPayload(c, P, n, ok)
    \/ \E withErr \in BOOLEAN : closeNotifierRead(withErr)
    \/ closeNotifierClose
    \/ CtxCancel

Next == SessNext /\ UNCHANGED <<decVars, gateVars, fatalVars, bootVars, bulkVars, scanVars, notifyVars, rmVars>>

Spec == Init /\ [][Next]_vars

(***************************************************************************)
(* What is on the wire                                                     *)
(***************************************************************************)
\* the bytes of frame kind o on the wire, in order
Sel(o) == Bytes(SelectSeq(wire, LAMBDA x : x.o = o))

IsPrefix(a, b) == Len(a) <= Len(b) /\ a = SubSeq(b, 1, Len(a))

RECURSIVE Concat(_)
Concat(q) == IF q = << >> THEN << >> ELSE Head(q) \o Concat(Tail(q))

RECURSIVE FlatBlocks(_)
FlatBlocks(q) == IF q = << >> THEN << >> ELSE BlockBytes(Head(q)) \o FlatBlocks(Tail(q))

\* the blocks the owner task received and has passed to its write closure
Written == IF taskpc = "blk" THEN SubSeq(accepted, 1, Len(accepted) - 1) ELSE accepted

SubBlocks == [i \in 1..Len(submitted) |-> submitted[i][2]]

\* a completion call that did the hand-off has returned
Returned == \E c \in Callers : pc[c] = "ret" /\ ~noop[c]

NothingAfterTerm ==
    \A i, j \in DOMAIN wire :
        (i < j /\ wire[i].o = "term") => wire[j].o \in {"term", "pay"}

\* the wire from element i on is a sequence of whole frames; with cut, the last
\* block frame may be cut short
RECURSIVE Framed(_, _, _)
Framed(w, i, cut) ==
    IF i > Len(w) THEN TRUE
    ELSE CASE w[i].o = "hb" -> w[i].b = 32 /\ Framed(w, i + 1, cut)
           [] w[i].o = "blk" ->
                /\ w[i].b = 2
                /\ IF Len(w) - i < 4
                   THEN cut /\ \A j \in i..Len(w) : w[j].o = "blk"
                   ELSE LET L == Uint32([k \in 1..4 |-> w[i + k].b])
                        IN  /\ \A k \in 1..4 : w[i + k].o = "blk"
                            /\ IF Len(w) - (i + 4) < L
                               THEN cut /\ \A j \in (i + 5)..Len(w) : w[j].o = "blk"
                               ELSE /\ \A j \in (i + 5)..(i + 4 + L) : w[j].o = "blk"
                                    /\ Framed(w, i + 5 + L, cut)
           [] w[i].o = "term" -> \A j \in i..Len(w) : w[j].o \in {"term", "pay"}
           [] OTHER -> \A j \in i..Len(w) : w[j].o = "pay"

(***************************************************************************)
(* Claims about the keep-alive session, checked under Spec                 *)
(***************************************************************************)

\* C1 as stated: in every session (of any variant) in which the completion
\* call is made, the owner task writes exactly one terminal frame, 0x00 or 0x01
\* and the error text, and nothing of the task follows it: once the task has
\* ended, that frame is on the wire. Fails when a write to the transport failed
\* before or inside the frame.
C1_Original ==
    taskpc = "done" => (Sel("term") = TermBytes(termErr) /\ NothingAfterTerm)

\* C1 amended: the task never writes more than one terminal frame, the one for
\* the value it received from the completion call, and never a heartbeat or
\* block after a terminal byte; the frame is on the wire in full once the task
\* has ended, unless one of the task's writes to the transport failed (the
\* frame is then cut short or missing).
C1_OneTerminalFrameLast ==
    /\ IsPrefix(Sel("term"), TermBytes(termErr))
    /\ NothingAfterTerm
    /\ Sel("term") # << >> => taskpc = "done"
    /\ first # "none" => termErr = arg[first]
    /\ (taskpc = "done" /\ canWrite) => Sel("term") = TermBytes(termErr)

C1_Witness ==
    /\ variant = "req" /\ taskpc = "done" /\ canWrite /\ Returned
    /\ Sel("hb") # << >> /\ Sel("term") = TermBytes("eB")

\* C2: calling the func(error) returned by keepHTTPResponseAlive or
\* keepHTTPReqResponseAlive several times, one after another or concurrently
\* from several tasks, leaves one terminal frame on the wire, and no call
\* panics (send on the closed channel) or blocks for ever (on the nil channel).
C2_Original ==
    variant \in {"req", "resp"} =>
        /\ IsPrefix(Sel("term"), TermBytes(termErr))
        /\ \A c \in Callers : pc[c] \notin {"panic", "stuck"}

\* C3: with the completion calls made one after another, as the handlers make
\* them, a call returns only after the owner task has written the terminal
\* frame and closed the channel (so the task writes nothing afterwards), and
\* the payload a handler writes after completion follows a complete terminal
\* frame with no task byte after or inside it.
C3_ReturnAfterTerminal ==
    ~overlap =>
        /\ \A c \in Callers :
               (pc[c] \in {"clr", "ret"}) => (taskpc = "done" /\ chClosed)
        /\ \A i \in DOMAIN wire :
               wire[i].o = "pay" =>
                   /\ Sel("term") = TermBytes(termErr)
                   /\ \E j \in 1..(i - 1) : wire[j].o = "term"
                   /\ \A j \in (i + 1)..Len(wire) : wire[j].o = "pay"

C3_Witness ==
    /\ variant = "resp" /\ ~overlap /\ paid
    /\ Sel("hb") # << >> /\ Sel("pay") = <<32, 1>>

\* a CloseWithError(nil) has returned after one producer's Write calls all did
OneProducerThenClose ==
    /\ variant = "stream"
    /\ \A i \in DOMAIN submitted : submitted[i][1] = "p1"
    /\ \A p \in Producers : pw[p] = "idle"
    /\ first # "none" /\ pc[first] = "ret" /\ arg[first] = "nil"

\* C4 as stated: whatever one producer submitted through Write before
\* CloseWithError(nil), waitForHTTPStream delivers exactly the concatenation
\* of the blocks. Fails when a write to the transport failed.
C4_Original ==
    OneProducerThenClose =>
        LET r == waitForHTTPStream(Bytes(wire))
        IN  r.res = "ok" /\ r.out = Concat(SubBlocks)

\* C4 amended: the same, provided no write of the owner task to the transport
\* failed; whatever the number of heartbeats between the frames.
C4_RoundTrip ==
    (OneProducerThenClose /\ canWrite) =>
        LET r == waitForHTTPStream(Bytes(wire))
        IN  r.res = "ok" /\ r.out = Concat(SubBlocks)

C4_Witness ==
    /\ OneProducerThenClose /\ canWrite
    /\ Len(accepted) = 2 /\ accepted[1] # accepted[2]
    /\ Sel("hb") # << >>

\* C6: over CloseWithError calls made one after another on one stream (as
\* ReadMultiple's encoder task and handler make them), h.err holds the error of
\* the first call, the terminal frame is that of the first call, and every
\* later call returns at the nil check without changing either.
C6_FirstErrorRetained ==
    variant = "stream" =>
        /\ (first = "none" \/ pc[first] = "sent") => hErr = "nil"
        /\ (first # "none" /\ pc[first] \in {"waiting", "clr", "ret"})
               => hErr = arg[first]
        /\ first # "none" =>
               /\ termErr = arg[first]
               /\ IsPrefix(Sel("term"), TermBytes(arg[first]))
               /\ (pc[first] = "ret" /\ canWrite)
                      => Sel("term") = TermBytes(arg[first])
        /\ \A c \in Callers :
               (pc[c] # "idle" /\ first # "none" /\ c # first)
                   => (noop[c] /\ pc[c] = "ret")

C6_Witness ==
    /\ variant = "stream" /\ canWrite
    /\ pc["h1"] = "ret" /\ pc["h2"] = "ret" /\ noop["h2"]
    /\ arg["h1"] = "eA" /\ arg["h2"] = "eB"
    /\ hErr = "eA" /\ Sel("term") = TermBytes("eA")

\* C7 as stated: every block the owner task received and wrote is on the wire
\* as one whole frame (tag 2, little-endian length, payload). Fails when a
\* write to the transport failed inside or before a block.
C7_Original ==
    variant = "stream" =>
        (Framed(wire, 1, FALSE) /\ Sel("blk") = FlatBlocks(Written))

\* C7 amended: with any number of producers, the block bytes on the wire are
\* whole frames in the order the task received the blocks, with no heartbeat,
\* terminal or foreign byte inside a frame; only a failed write of the task can
\* cut the last frame short or leave later blocks out.
C7_WholeFrames ==
    variant = "stream" =>
        /\ Framed(wire, 1, ~canWrite)
        /\ IsPrefix(Sel("blk"), FlatBlocks(Written))
        /\ canWrite => Sel("blk") = FlatBlocks(Written)

C7_Witness ==
    /\ variant = "stream" /\ canWrite /\ taskpc = "loop"
    /\ Len(submitted) = 2 /\ submitted[1][1] # submitted[2][1]
    /\ Len(accepted) = 2 /\ Sel("hb") # << >>
    /\ \E p \in Producers : pw[p] = "idle"

FrameSet ==
    { [k |-> "hb",  b |-> <<32>>],
      [k |-> "ok",  b |-> <<0>>],
      [k |-> "err", b |-> <<1>>],
      [k |-> "bad", b |-> <<7>>],
      [k |-> "blk", b |-> <<2, 0, 0, 0, 0>>],
      [k |-> "blk", b |-> <<2, 2, 0, 0, 0, 32, 0>>],
      [k |-> "cut", b |-> <<2, 2, 0, 0, 0, 1>>],
      [k |-> "hdr", b |-> <<2, 1, 0>>] }

FrameSeqs ==
    { fs \in UNION { [1..n -> FrameSet] : n \in 0..MaxFrames } :
        \A i \in 1..(Len(fs) - 1) : fs[i].k \notin {"cut", "hdr"} }

\* the bytes of a frame sequence, each marked t where a frame starts
RECURSIVE Enc(_)
Enc(fs) ==
    IF fs = << >> THEN << >>
    ELSE [i \in 1..Len(Head(fs).b) |-> [b |-> Head(fs).b[i], t |-> (i = 1)]]
             \o Enc(Tail(fs))

Dec(kind, s) ==
    IF kind = "resp" THEN waitForHTTPResponse(s) ELSE waitForHTTPStream(s)

\* the position of the terminal byte of a marked stream, 0 if it has none
RECURSIVE TermPos(_, _)
TermPos(m, i) ==
    IF i > Len(m) THEN 0
    ELSE IF m[i].t /\ m[i].b \in {0, 1} THEN i ELSE TermPos(m, i + 1)

DecInit ==
    /\ dKind \in {"resp", "stream"}
    /\ dFrames \in FrameSeqs
    /\ dIn = Enc(dFrames)
    /\ dIns = 0 /\ dAtTag = TRUE /\ dRes = NoResult /\ dRes0 = NoResult
    /\ SessIdle /\ GateIdle /\ FatalIdle /\ BootIdle /\ BulkIdle /\ ScanIdle
    /\ NotifyIdle /\ RMIdle

\* one heartbeat byte more in the stream, in front of byte p, which is the
\* terminal byte or a byte before it
DecInsert(p) ==
    /\ dRes.res = "none" /\ dIns < MaxIns
    /\ p \in 1..TermPos(dIn, 1)
    /\ dIn' = SubSeq(dIn, 1, p - 1) \o <<[b |-> 32, t |-> dIn[p].t]>>
                  \o SubSeq(dIn, p, Len(dIn))
    /\ dIns' = dIns + 1
    /\ dAtTag' = (dAtTag /\ dIn[p].t)
    /\ UNCHANGED <<dKind, dFrames, dRes, dRes0>>

\* the decoder runs on the stream, and on the stream as generated
DecRun ==
    /\ dRes.res = "none"
    /\ dRes' = Dec(dKind, Bytes(dIn))
    /\ dRes0' = Dec(dKind, Bytes(Enc(dFrames)))
    /\ UNCHANGED <<dKind, dFrames, dIn, dIns, dAtTag>>

DecNext ==
    /\ \/ \E p \in 1..(7 * MaxFrames + MaxIns) : DecInsert(p)
       \/ DecRun
    /\ UNCHANGED <<sessVars, gateVars, fatalVars, bootVars, bulkVars, scanVars, notifyVars, rmVars>>

DecSpec == DecInit /\ [][DecNext]_vars

\* the first frame from frame i on that the decoder does not pass over: it
\* passes over heartbeats, and waitForHTTPStream over whole blocks
RECURSIVE Decisive(_, _, _)
Decisive(fs, kind, i) ==
    IF i > Len(fs) THEN [k |-> "end", i |-> i]
    ELSE IF fs[i].k = "hb" \/ (kind = "stream" /\ fs[i].k = "blk")
         THEN Decisive(fs, kind, i + 1)
         ELSE [k |-> fs[i].k, i |-> i]

\* C5 as stated: for both decoders, heartbeat bytes inserted at any positions of
\* the stream before the terminal byte leave the decoded result as it is.
\* Fails in waitForHTTPStream for a byte inserted inside a data block.
C5_Original ==
    dRes.res # "none" => dRes = dRes0

\* C5 amended: for both decoders, heartbeat bytes inserted before the terminal
\* byte at positions where a frame starts (not inside a data block's length
\* field or payload) leave the result as it is: same outcome, same error text,
\* same delivered bytes.
C5_HeartbeatsBetweenFrames ==
    (dRes.res # "none" /\ dAtTag) => dRes = dRes0

C5_Witness ==
    /\ dKind = "stream" /\ dRes.res # "none" /\ dAtTag /\ dIns = MaxIns
    /\ dRes.res = "ok" /\ dRes.out = <<32, 0>>
    /\ Len(dIn) > 2 /\ dIn[1].b = 32 /\ dIn[2].b = 2

\* what C9 says of result r of decoder kind on the frames fs
FailsOnMalformed(r, kind, fs) ==
    LET d == Decisive(fs, kind, 1)
    IN  /\ r.res = "ok" <=> d.k = "ok"
        /\ r.res = "error" <=> d.k = "err"
        /\ d.k = "bad" => (r.res = "badtag" /\ r.tag = 7)
        /\ (kind = "resp" /\ d.k \in {"blk", "cut", "hdr"})
               => (r.res = "badtag" /\ r.tag = 2)
        /\ d.k = "end" => (r.res = "readerr" /\ r.err = "EOF")
        /\ (kind = "stream" /\ d.k = "hdr")
               => (r.res = "readerr" /\ r.err = "ErrUnexpectedEOF")
        /\ (kind = "stream" /\ d.k = "cut")
               => (r.res = "unexpectedEOF" /\ r.err = "ErrUnexpectedEOF")

\* C9: a decoder returns success only for a stream whose first frame after
\* heartbeats (and, in waitForHTTPStream, whole data blocks) is the success
\* byte; a tag other than 0, 1, 2 (stream decoder only) or 32 fails as an
\* unexpected filler byte; a stream that ends before a terminal byte fails with
\* the read error; a block shorter than its length field fails with
\* io.ErrUnexpectedEOF in waitForHTTPStream.
C9_MalformedStreamFails ==
    dRes.res # "none" =>
        /\ FailsOnMalformed(dRes0, dKind, dFrames)
        /\ dAtTag => FailsOnMalformed(dRes, dKind, dFrames)

C9_Witness ==
    /\ dKind = "stream" /\ dRes.res # "none"
    /\ Len(dFrames) = 2 /\ dFrames[1].k = "blk" /\ dFrames[2].k = "cut"
    /\ dRes0.res = "unexpectedEOF" /\ dRes0.out = <<32, 0, 1>>

(***************************************************************************)
(* Specification of the gateway's validation of a request (GateSpec)       *)
(***************************************************************************)
GateInit ==
    /\ attached = FALSE /\ storedID = "d1" /\ getErr = NoErr
    /\ req = NoReq /\ out = NoOut
    /\ hnd = "none" /\ opCalls = 0 /\ errWrites = 0 /\ reply = NoReply
    /\ SessIdle /\ DecIdle /\ FatalIdle /\ BootIdle /\ BulkIdle /\ ScanIdle
    /\ NotifyIdle /\ RMIdle

\* the requests of S that can arrive: the gateway is followed through one request
Arriving(S) == IF req.path = "none" THEN S ELSE {}

GateNext ==
    /\ \/ \E id \in DiskIDs, e \in GetErrs : createStorage(id, e)
       \/ \E id \in DiskIDs, e \in GetErrs : GetDiskIDChanges(id, e)
       \/ \E r \in Arriving(HTTPRequests) : HealthHandler(r)
       \/ \E id \in {""} \cup DiskIDs : DiskInfoHandler(id)
       \/ \E r \in Arriving(HTTPRequests) : MakeVolHandler(r)
       \/ \E e \in OpErrs : MakeVol(e)
       \/ \E id \in {""} \cup DiskIDs : StatVolHandler(id)
       \/ \E e \in OpErrs : StatVol(e)
    /\ UNCHANGED <<sessVars, decVars, fatalVars, bootVars, bulkVars, scanVars, notifyVars, rmVars>>

GateSpec == GateInit /\ [][GateNext]_vars

\* C10 as stated: in IsValid and in checkID a call with an empty disk-id always
\* passes, without GetDiskID being called; a call with a non-empty disk-id
\* passes exactly when it equals the id GetDiskID returns at the time of the
\* call; a non-empty mismatched id is rejected, by IsValid as errDiskStale with
\* status 412. Fails for an empty disk-id when no disk is attached, and in
\* IsValid when authentication or ParseForm fails.
C10_Original ==
    req.path # "none" =>
        /\ req.diskID = "" => (out.ok /\ ~out.consulted)
        /\ (req.diskID # "" /\ out.hadDisk /\ out.hadErr = NoErr)
               => (out.ok <=> req.diskID = out.hadID)
        /\ (req.diskID # "" /\ out.hadDisk /\ out.hadErr = NoErr
                /\ req.diskID # out.hadID /\ req.path = "http")
               => (out.wrote /\ out.status = 412 /\ out.body = "errDiskStale")

\* the call reached the comparison of disk-ids: a disk was attached and, in
\* IsValid, the request was authenticated and its form parsed
ReachedIdentityCheck ==
    /\ out.hadDisk
    /\ req.path = "http" => (storageServerRequestValidate(req) = NoErr /\ req.formOK)

\* C10 amended: for a call that finds the disk attached (and, in IsValid, is
\* authenticated and parses), an empty disk-id passes without GetDiskID being
\* called; a non-empty one passes exactly when GetDiskID returns no error and
\* that same id; a mismatch is rejected, by IsValid as errDiskStale with status
\* 412. A call that does not get that far is rejected whatever its disk-id,
\* without GetDiskID being called.
C10_IdentityValidation ==
    req.path # "none" =>
        /\ (ReachedIdentityCheck /\ req.diskID = "") => (out.ok /\ ~out.consulted)
        /\ (ReachedIdentityCheck /\ req.diskID # "") =>
               /\ out.consulted
               /\ out.ok <=> (out.hadErr = NoErr /\ req.diskID = out.hadID)
               /\ (out.hadErr = NoErr /\ req.diskID # out.hadID /\ req.path = "http")
                      => (out.wrote /\ out.status = 412 /\ out.body = "errDiskStale")
        /\ ~ReachedIdentityCheck => (~out.ok /\ ~out.consulted)
        /\ req.path = "http" => (out.wrote <=> ~out.ok)

C10_Witness ==
    /\ req.path = "http" /\ ReachedIdentityCheck
    /\ req.diskID = "d1" /\ out.hadID = "d2" /\ out.hadErr = NoErr
    /\ out.status = 412 /\ ~out.ok

\* the call presented a non-empty disk-id other than the one GetDiskID returned,
\* and was not rejected before the disk-ids were compared
StaleCall ==
    /\ req.path # "none" /\ ReachedIdentityCheck
    /\ req.diskID # "" /\ out.hadErr = NoErr /\ req.diskID # out.hadID

\* C11 as stated: a non-empty mismatched disk-id is reported to the caller as
\* the stale-drive condition, also by the handlers of the typed RPC transport,
\* which validate through checkID. Fails on the RPC path.
C11_Original ==
    StaleCall => (~out.ok /\ out.err = Err("errDiskStale", 0))

\* C11 amended: a non-empty mismatched disk-id is rejected on both paths and the
\* collaborator's operation is not called; IsValid reports it as errDiskStale
\* (status 412), the RPC handlers report every failure of checkID, a mismatch
\* included, as errDiskNotFound.
C11_MismatchReported ==
    StaleCall =>
        /\ ~out.ok /\ opCalls = 0
        /\ req.path = "http" => (out.err = Err("errDiskStale", 0) /\ out.status = 412)
        /\ req.path = "rpc" => out.err = Err("errDiskNotFound", 0)

C11_Witness ==
    /\ StaleCall /\ hnd = "StatVol" /\ req.diskID = "d2" /\ out.hadID = "d1"
    /\ out.consulted /\ out.err = Err("errDiskNotFound", 0)

\* C12: the collaborator's data operation is called, at most once, only for a
\* call that found the disk attached, was authenticated and parsed (HTTP) and
\* whose disk-id was empty or equal to the id GetDiskID returned; a rejected
\* call never reaches the operation and, on the HTTP path, has exactly one
\* error response written.
C12_GuardedOperation ==
    /\ opCalls <= 1
    /\ opCalls > 0 =>
           /\ out.ok /\ ReachedIdentityCheck
           /\ req.diskID = "" \/ (out.hadErr = NoErr /\ req.diskID = out.hadID)
    /\ (req.path # "none" /\ ~out.ok) =>
           /\ opCalls = 0 /\ reply = NoReply
           /\ req.path = "http" => (out.wrote /\ errWrites = 1)
    /\ req.path = "rpc" => errWrites = 0
    /\ errWrites <= 1

C12_Witness ==
    /\ hnd = "MakeVol" /\ opCalls = 1 /\ req.diskID = "d2" /\ out.hadID = "d2"
    /\ reply.cause = NoErr /\ errWrites = 0

\* C13 as stated: a call to a disk absent from the registry is rejected with
\* errDiskNotFound, which writeErrorResponse answers with the not-found status
\* (404), as it does errFileNotFound and errFileVersionNotFound. Fails: the
\* status is 403.
C13_Original ==
    (req.path = "http" /\ ~out.hadDisk) =>
        (~out.ok /\ out.err = Err("errDiskNotFound", 0) /\ out.status = 404)

\* C13 amended: a call to a disk absent from the registry is rejected with
\* errDiskNotFound on both paths, without the collaborator being called;
\* writeErrorResponse answers errDiskNotFound with the fallback status 403,
\* not with the 404 of errFileNotFound and errFileVersionNotFound.
C13_AbsentDisk ==
    /\ (req.path # "none" /\ ~out.hadDisk) =>
           /\ ~out.ok /\ out.err = Err("errDiskNotFound", 0)
           /\ ~out.consulted /\ opCalls = 0
           /\ req.path = "http" =>
                  (out.wrote /\ out.status = 403 /\ out.body = "errDiskNotFound")
    /\ (hnd = "MakeVol" /\ opCalls = 1) =>
           /\ reply.cause.root = "errDiskNotFound" => reply.status = 403
           /\ reply.cause.root \in {"errFileNotFound", "errFileVersionNotFound"}
                  => reply.status = 404

C13_Witness ==
    /\ req.path = "http" /\ ~out.hadDisk
    /\ storageServerRequestValidate(req) = NoErr /\ req.formOK /\ req.diskID = ""
    /\ out.status = 403 /\ out.body = "errDiskNotFound"

\* the status the classification table of C14 gives a root condition
ExpectedStatus(root) ==
    CASE root = "errDiskStale" -> 412
      [] root = "errFileNotFound" -> 404
      [] root = "errFileVersionNotFound" -> 404
      [] root = "errInvalidAccessKeyID" -> 401
      [] root = "errAccessKeyDisabled" -> 401
      [] root = "errNoAuthToken" -> 401
      [] root = "errMalformedAuth" -> 401
      [] root = "errAuthentication" -> 401
      [] root = "errSkewedAuthTime" -> 401
      [] root = "context.Canceled" -> 499
      [] root = "context.DeadlineExceeded" -> 499
      [] OTHER -> 403

\* C14: writeErrorResponse writes one status per error: 412 for errDiskStale,
\* 404 for file / version not found, 401 for the six authentication errors, 499
\* for a cancelled or expired context, 403 for every other error; the body is
\* the message text of the error it classified (the error after unwrapAll).
C14_Classification ==
    /\ (hnd = "MakeVol" /\ opCalls = 1 /\ reply.cause # NoErr) =>
           /\ reply.status = ExpectedStatus(reply.cause.root)
           /\ reply.body = reply.cause.root
           /\ errWrites = 1
    /\ (hnd = "MakeVol" /\ opCalls = 1 /\ reply.cause = NoErr) =>
           (reply.status = 0 /\ errWrites = 0)
    /\ (req.path = "http" /\ ~out.ok) =>
           /\ out.wrote /\ out.status = ExpectedStatus(out.err.root)
           /\ out.body = out.err.root

C14_Witness ==
    /\ hnd = "MakeVol" /\ reply.cause = Err("context.DeadlineExceeded", 0)
    /\ reply.status = 499 /\ reply.body = "context.DeadlineExceeded"

\* C15: an error wrapped in any number of layers of added context gets the
\* status of its root condition, and is reported as that root condition.
C15_WrappedAsRoot ==
    (hnd = "MakeVol" /\ opCalls = 1 /\ reply.cause.depth > 0) =>
        /\ reply.status = StatusOf(Err(reply.cause.root, 0))
        /\ reply.err = Err(reply.cause.root, 0)

C15_Witness ==
    /\ hnd = "MakeVol" /\ reply.cause = Err("errFileVersionNotFound", MaxWrap)
    /\ reply.status = 404

\* the instants are at most 15 minutes apart
WithinSkew(x) ==
    /\ ~Less(x, Dur(0, 0 - DefaultSkewTime))
    /\ ~Less(Dur(0, DefaultSkewTime), x)

\* everything storageServerRequestValidate asks of the request but the skew
OtherwiseValid(r) ==
    /\ r.tok = "ok" /\ r.verifies
    /\ r.accessKey = ActiveAccessKey \/ r.subject = ActiveAccessKey
    /\ r.audience = r.rawQuery
    /\ r.timeParses

AuthErrors == {"errNoAuthToken", "errMalformedAuth", "errAuthentication", "errSkewedAuthTime"}

\* C16 as stated: an otherwise valid request is accepted by
\* storageServerRequestValidate iff its timestamp is at most 15 minutes from
\* the current time, and rejected with errSkewedAuthTime otherwise. Fails for
\* a timestamp so far in the past that the difference does not fit a Duration.
C16_Original ==
    (req.path = "http" /\ out.hadDisk /\ OtherwiseValid(req)) =>
        /\ WithinSkew(req.delta) => out.err.root \notin AuthErrors
        /\ ~WithinSkew(req.delta) =>
               (~out.ok /\ out.err = Err("errSkewedAuthTime", 0) /\ out.status = 401)

\* C17 as stated: a request storageServerRequestValidate accepts has a well
\* formed token that verifies, the active access key as access key or subject,
\* the raw query as audience and a timestamp that parses and lies within the
\* skew tolerance; every other request is refused with one of the four
\* authentication errors and answered with status 401. Fails with C16.
C17_Original ==
    (req.path = "http" /\ out.hadDisk) =>
        /\ out.err.root \notin AuthErrors =>
               (OtherwiseValid(req) /\ WithinSkew(req.delta))
        /\ ~(OtherwiseValid(req) /\ WithinSkew(req.delta)) =>
               (~out.ok /\ out.err.root \in AuthErrors /\ out.status = 401)

(***************************************************************************)
(* Specification of the fatal error policy on a batch of disks (FatalSpec) *)
(***************************************************************************)
FatalInit ==
    /\ errs \in SeqsUpTo(DiskErrs, MaxBatch)
    /\ fpc = "start" /\ fatalErr = NoErr /\ exit = FALSE /\ fatalOut = "none"
    /\ SessIdle /\ DecIdle /\ GateIdle /\ BootIdle /\ BulkIdle /\ ScanIdle
    /\ NotifyIdle /\ RMIdle

FatalNext ==
    /\ \/ CheckBatch
       \/ \E ex \in BOOLEAN : LogBatch(ex)
    /\ UNCHANGED <<sessVars, decVars, gateVars, bootVars, bulkVars, scanVars, notifyVars, rmVars>>

FatalSpec == FatalInit /\ [][FatalNext]_vars

(***************************************************************************)
(* Specification of the disk bootstrap (BootSpec)                          *)
(***************************************************************************)
\* registerStorageRESTHandlers has made the table and is at its first endpoint
BootInit ==
    /\ bpos = 1 /\ bpc = [d \in Disks |-> IF d = 1 THEN "new" ELSE "todo"]
    /\ attempts = [d \in Disks |-> 0] /\ lastErr = [d \in Disks |-> NoErr]
    /\ retrying = [d \in Disks |-> FALSE] /\ logs = [d \in Disks |-> 0]
    /\ mu = 0 /\ readers = 0 /\ drives = << >>
    /\ slotWrites = [d \in Disks |-> 0] /\ exited = FALSE
    /\ lkpc = "idle" /\ lkPub = {} /\ lkSlot = {} /\ lkList = {} /\ lookups = 0
    /\ lkSeen = {}
    /\ SessIdle /\ DecIdle /\ GateIdle /\ FatalIdle /\ BulkIdle /\ ScanIdle
    /\ NotifyIdle /\ RMIdle

BootNext ==
    /\ \/ \E d \in Disks, e \in {NoErr} \cup AttachErrs : newXLStorage(d, e)
       \/ \E d \in Disks : Sleep(d)
       \/ \E d \in Disks : Lock(d)
       \/ \E d \in Disks : AppendDrive(d)
       \/ \E d \in Disks : SetSlot(d)
       \/ \E d \in Disks : Unlock(d)
       \/ LookupRLock
       \/ LookupSlot
       \/ LookupList
       \/ LookupRUnlock
    /\ UNCHANGED <<sessVars, decVars, gateVars, fatalVars, bulkVars, scanVars, notifyVars, rmVars>>

BootSpec == BootInit /\ [][BootNext]_vars

\* the conditions checkDiskFatalErrs recognises
Recognised ==
    {"errUnsupportedDisk", "errDiskAccessDenied", "errFileAccessDenied",
     "errDiskNotDir", "errFaultyDisk", "errXLBackend"}

\* the batch has at least one disk and every disk failed with condition c
AllFailedWith(c) == Len(errs) >= 1 /\ \A i \in DOMAIN errs : Is(errs[i], c)

\* C18: for a batch of K >= 1 disks that all failed with one recognised
\* condition, checkDiskFatalErrs returns that condition (errDiskAccessDenied
\* for errFileAccessDenied), never nil, and logFatalErrs called on it with
\* exit = true ends the process.
C18_IdenticalBatchFatal ==
    \A c \in Recognised :
        (AllFailedWith(c) /\ fpc # "start") =>
            /\ fatalErr # NoErr
            /\ fatalErr = Err(IF c = "errFileAccessDenied"
                              THEN "errDiskAccessDenied" ELSE c, 0)
            /\ (fpc = "logged" /\ exit) => fatalOut = "fatal"

C18_Witness ==
    /\ Len(errs) = MaxBatch /\ AllFailedWith("errFileAccessDenied")
    /\ errs[MaxBatch].depth = MaxWrap
    /\ fpc = "logged" /\ exit /\ fatalOut = "fatal"
    /\ fatalErr = Err("errDiskAccessDenied", 0)

\* the conditions logFatalErrs ends the process for whatever the exit flag
AlwaysFatal == {"errXLBackend", "errUnsupportedDisk", "errDiskNotDir"}

\* at least two disks failed to attach, with distinct conditions
DistinctFailures ==
    \E d1, d2 \in Disks :
        /\ lastErr[d1] # NoErr /\ lastErr[d2] # NoErr
        /\ lastErr[d1] # lastErr[d2]

\* C19 as stated: when the disks fail to attach with at least two distinct
\* conditions the process continues, whatever the conditions are. Fails when
\* one of them is a condition logFatalErrs ends the process for.
C19_Original == DistinctFailures => ~exited

\* C19 amended: the process ends exactly when some disk's attach fails with
\* errXLBackend, errUnsupportedDisk or errDiskNotDir; every other failure is
\* written to the log once per attempt, does not hold up the loop over the
\* endpoints, and leaves the disk in its own retry loop.
C19_ContinuesUnlessFatal ==
    /\ exited <=> \E d \in Disks : lastErr[d].root \in AlwaysFatal
    /\ \A d \in Disks :
           (lastErr[d] # NoErr /\ lastErr[d].root \notin AlwaysFatal) =>
               /\ retrying[d] /\ logs[d] >= 1
               /\ bpos > d /\ bpc[d] # "todo"
    /\ \A d \in Disks :
           attempts[d] = logs[d]
                         + (IF lastErr[d].root \in AlwaysFatal THEN 1 ELSE 0)
                         + (IF bpc[d] \in {"lock", "append", "slot", "unlock", "done"}
                            THEN 1 ELSE 0)

C19_Witness ==
    /\ DistinctFailures /\ ~exited
    /\ lastErr[1] = Err("errFaultyDisk", 0) /\ lastErr[2] = Err("errUnformattedDisk", 0)
    /\ retrying[1] /\ retrying[2] /\ bpc[1] = "sleep" /\ bpc[2] = "new"
    /\ logs[1] = MaxAttempts

\* the entries of globalLocalDrives that are disk d
Entries(d) == Cardinality({i \in DOMAIN drives : drives[i] = d})

\* C20: a disk whose attach succeeds is published exactly once: its slot is
\* written once and it is appended once to globalLocalDrives, both within one
\* hold of the exclusive lock; a lookup that takes the shared lock after the
\* publication finds the disk, no lookup finds a slot without its list entry,
\* and createStorage is not called again for a published disk.
C20_PublishedOnce ==
    /\ \A d \in Disks :
           /\ slotWrites[d] <= 1 /\ Entries(d) <= 1
           /\ mu # d => slotWrites[d] = Entries(d)
           /\ bpc[d] = "done" <=> (mu # d /\ slotWrites[d] = 1)
           /\ bpc[d] \in {"new", "sleep", "lock"} => slotWrites[d] = 0
    /\ (lkpc \in {"slot", "list"} \/ (lkpc = "idle" /\ lookups > 0)) =>
           lkPub \subseteq lkSlot
    /\ (lkpc = "list" \/ (lkpc = "idle" /\ lookups > 0)) => lkSlot = lkList

C20_Witness ==
    /\ bpc[1] = "done" /\ attempts[1] = MaxAttempts /\ retrying[1]
    /\ bpc[MaxDisks] = "done" /\ ~retrying[MaxDisks]
    /\ lkpc = "list" /\ lkPub = Disks /\ lkSlot = Disks /\ lkList = Disks

\* C29 as stated: checkDiskFatalErrs returns a non-nil error only for a
\* non-empty batch whose every entry is a failure of one and the same
\* condition; it returns nil for an empty batch, for a batch with a nil entry
\* and for a batch with two different conditions. Fails for the empty batch.
C29_Original ==
    (fpc # "start" /\ fatalErr # NoErr) =>
        /\ Len(errs) >= 1
        /\ \E c \in Recognised : AllFailedWith(c)

\* producers blocked in h.block <- tmp
Sending == Cardinality({p \in Producers : pw[p] = "sending"})

\* the Write calls made with a non-empty block
NonEmptyWrites == Len(SelectSeq(SubBlocks, LAMBDA b : b # << >>))

\* C24 as stated: a Write returns only after the owner task received its
\* block, and the task writes a received block to the transport before it
\* receives the next, so at most one accepted block is not yet written. Fails
\* for a Write that returns without a hand-off (empty block, stream closed with
\* an error) and for blocks received after a write to the transport failed.
C24_Original ==
    variant = "stream" =>
        /\ Len(submitted) - Sending = Len(accepted)
        /\ Sel("blk") = FlatBlocks(Written)

\* C24 amended: a Write of a non-empty block on a stream that was not closed
\* with an error returns only after the owner task received the block, and the
\* producer stays blocked until then; the task holds at most one received block
\* and is done with it before it receives the next: it wrote it to the transport
\* or, after a write to the transport failed, dropped it. A Write of an empty
\* block, or after CloseWithError with an error, returns at once without a
\* hand-off.
C24_Backpressure ==
    variant = "stream" =>
        /\ Len(accepted) + Sending <= NonEmptyWrites
        /\ hErr = "nil" => Len(accepted) + Sending = NonEmptyWrites
        /\ taskpc = "blk" <=> cur # << >>
        /\ taskpc = "blk" => cur = accepted[Len(accepted)]
        /\ canWrite => Sel("blk") = FlatBlocks(Written)
        /\ \A p \in Producers : pw[p] = "sending" => blk[p] # << >>

C24_Witness ==
    /\ variant = "stream" /\ canWrite /\ hErr = "nil"
    /\ taskpc = "blk" /\ pw["p2"] = "sending" /\ pw["p1"] = "idle"
    /\ accepted = <<blk["p1"]>> /\ Len(submitted) = 2

\* C25: in keepHTTPReqResponseAlive, when the request context ends before the
\* body is drained, the owner task stops waiting for the body and goes on to
\* its heartbeat loop; it writes no terminal frame and does not end before it
\* received the value of a completion call, and the terminal frame is the one
\* for that value.
C25_ContextEndKeepsWaiting ==
    variant = "req" =>
        /\ first = "none" =>
               (taskpc \in {"drain", "loop"} /\ Sel("term") = << >> /\ ~chClosed)
        /\ first # "none" =>
               (termErr = arg[first] /\ IsPrefix(Sel("term"), TermBytes(arg[first])))
        /\ (ctxDone /\ ~bodyDone /\ taskpc = "done" /\ canWrite) =>
               Sel("term") = TermBytes(arg[first])
        /\ (Sel("hb") # << >> /\ ~bodyDone) => ctxDone

C25_Witness ==
    /\ variant = "req" /\ ctxDone /\ ~bodyDone /\ bodyLeft > 0
    /\ Sel("hb") = <<32>> /\ taskpc = "done" /\ first = "h1"
    /\ arg["h1"] = "eA" /\ Sel("term") = TermBytes("eA")

(***************************************************************************)
(* Specification of a session whose completion calls are made one after    *)
(* another, with the scheduling of the tasks (LiveSpec)                    *)
(***************************************************************************)
\* a completion call made when no other is in progress, as every handler of
\* the gateway makes them
DoneBeginInTurn(c, e) ==
    /\ \A d \in Callers \ {c} : ~InProgress(d)
    /\ DoneBegin(c, e)

\* the steps of the owner task other than a ticker tick
TaskStep ==
    /\ \/ TaskDrainCtxDone
       \/ TaskDrainBodyDone
       \/ \E n \in 0..3, ok \in BOOLEAN : TaskFinish(n, ok)
       \/ \E n \in 0..7, ok \in BOOLEAN : TaskWriteBlock(n, ok)
    /\ UNCHANGED <<decVars, gateVars, fatalVars, bootVars, bulkVars, scanVars, notifyVars, rmVars>>

\* the owner task's select takes the completion case
TaskDoneCase ==
    /\ \E c \in Callers : TaskRecvDone(c)
    /\ UNCHANGED <<decVars, gateVars, fatalVars, bootVars, bulkVars, scanVars, notifyVars, rmVars>>

\* the steps of a completion call after its nil check
DoneStep(c) ==
    /\ \/ DoneSendEval(c)
       \/ DoneRecvEval(c)
       \/ DoneRecvClosed(c)
       \/ DoneClear(c)
    /\ UNCHANGED <<decVars, gateVars, fatalVars, bootVars, bulkVars, scanVars, notifyVars, rmVars>>

\* the blocks of a stream come from one producer, as in ReadMultiple, whose
\* encoder task is the only writer
LiveNext ==
    /\ \/ TaskDrainCtxDone
       \/ TaskDrainBodyDone
       \/ \E n \in 0..1, ok \in BOOLEAN : TaskTick(n, ok)
       \/ \E c \in Callers : TaskRecvDone(c)
       \/ \E n \in 0..3, ok \in BOOLEAN : TaskFinish(n, ok)
       \/ \E p \in Producers : TaskRecvBlock(p)
       \/ \E n \in 0..7, ok \in BOOLEAN : TaskWriteBlock(n, ok)
       \/ \E c \in Callers, e \in Errs : DoneBeginInTurn(c, e)
       \/ \E c \in Callers : DoneSendEval(c)
       \/ \E c \in Callers : DoneRecvEval(c)
       \/ \E c \in Callers : DoneRecvClosed(c)
       \/ \E c \in Callers : DoneClear(c)
       \/ \E b \in BlockSet : Write("p1", b)
       \/ \E withErr \in BOOLEAN : closeNotifierRead(withErr)
       \/ closeNotifierClose
       \/ CtxCancel
    /\ UNCHANGED <<decVars, gateVars, fatalVars, bootVars, bulkVars, scanVars, notifyVars, rmVars>>

\* the scheduler runs every goroutine that can take a step; a select whose
\* completion case is ready again and again chooses it at some point (the
\* choice among ready cases is random), whatever the ticker and the producers do
LiveSpec ==
    /\ Init /\ [][LiveNext]_vars
    /\ WF_vars(TaskStep)
    /\ \A c \in Callers : WF_vars(DoneStep(c))
    /\ SF_vars(TaskDoneCase)

\* C26: in each of the three variants, with the completion calls made one
\* after another, a completion call that was made returns, and by then the
\* owner task has ended: whether the task was waiting for the body, past the
\* end of the context or between heartbeats, and also after a write to the
\* transport failed.
C26_CompletionReturns ==
    \A c \in Callers :
        (pc[c] # "idle") ~> (pc[c] = "ret" /\ taskpc = "done" /\ chClosed)

C26_Witness ==
    /\ variant = "req" /\ ~canWrite /\ ~bodyDone /\ ~ctxDone
    /\ pc["h1"] = "ret" /\ ~noop["h1"] /\ taskpc = "done" /\ chClosed

\* the step A of the session can be taken
CanTake(A) == ENABLED (A /\ UNCHANGED <<decVars, gateVars, fatalVars, bootVars, bulkVars, scanVars, notifyVars, rmVars>>)

\* C30: in all three variants, after a write of the owner task to the
\* transport failed or was short, the task makes no further Write or Flush on
\* the transport; it still takes submitted blocks and the value of the
\* completion call, and drops what it would have written.
C30_NoWriteAfterFailure ==
    /\ canWrite => failOp = 0
    /\ ~canWrite => (failOp > 0 /\ wops = failOp /\ ~alive)
    /\ \A p \in Producers :
           (~canWrite /\ ~Crashed /\ taskpc = "loop" /\ pw[p] = "sending")
               => CanTake(TaskRecvBlock(p))
    /\ \A c \in Callers :
           (~canWrite /\ ~Crashed /\ taskpc \in {"drain", "loop"}
            /\ pc[c] = "sending" /\ ~chClosed)
               => CanTake(TaskRecvDone(c))
    /\ (~canWrite /\ ~Crashed /\ taskpc = "blk") => CanTake(TaskWriteBlock(0, FALSE))
    /\ (~canWrite /\ ~Crashed /\ taskpc = "term") => CanTake(TaskFinish(0, FALSE))

C30_Witness ==
    /\ variant = "stream" /\ ~canWrite /\ failOp = 1 /\ wops = 1
    /\ Len(accepted) = MaxBlocks /\ wire = << >>
    /\ taskpc = "done" /\ pc["h1"] = "ret" /\ ~noop["h1"]
    /\ \A p \in Producers : pw[p] = "idle"

\* a respond-only session is over: the completion call that did the hand-off
\* has returned and the handler wrote its payload exactly if it completed with
\* nil (StatInfoFile: done(err); if err != nil { return })
RespondOnlyDone ==
    /\ variant = "resp" /\ ~overlap
    /\ first # "none" /\ pc[first] = "ret"
    /\ arg[first] = "nil" <=> paid

\* what waitForHTTPResponse returns on the bytes of a session completed with e
\* is what C27 says: the error text of e, or success and the payload
RoundTrip(e) ==
    LET r == waitForHTTPResponse(Bytes(wire))
    IN  IF e # "nil"
        THEN r.res = "error" /\ r.text = ErrText(e) /\ r.out = << >>
        ELSE r.res = "ok" /\ r.out = Sel("pay") /\ Sel("pay") \in PayloadSet

\* C27 as stated: after keepHTTPResponseAlive completed with error e,
\* waitForHTTPResponse returns an error with the text of e; after it completed
\* with nil and the handler wrote payload P, it returns success and a reader
\* that yields P, bytes 0x00, 0x01 and 0x20 included. Fails when a write to
\* the transport failed.
C27_Original == RespondOnlyDone => RoundTrip(arg[first])

\* C27 amended: the same, provided no write to the transport failed; whatever
\* the number of heartbeats before the terminal frame.
C27_RespondRoundTrip == (RespondOnlyDone /\ alive) => RoundTrip(arg[first])

C27_Witness ==
    /\ RespondOnlyDone /\ alive /\ Sel("hb") # << >>
    /\ \/ arg[first] = "eB" /\ waitForHTTPResponse(Bytes(wire)).text = <<66, 32>>
       \/ arg[first] = "nil" /\ waitForHTTPResponse(Bytes(wire)).out = <<32, 1>>

(***************************************************************************)
(* Specification of the disk bootstrap with the scheduling of its tasks    *)
(* (BootLiveSpec)                                                          *)
(***************************************************************************)
\* the steps of createStorage for disk d once newXLStorage returned a disk
PublishStep(d) ==
    /\ AppendDrive(d) \/ SetSlot(d) \/ Unlock(d)
    /\ UNCHANGED <<sessVars, decVars, gateVars, fatalVars, bulkVars, scanVars, notifyVars, rmVars>>

LockStep(d) == Lock(d) /\ UNCHANGED <<sessVars, decVars, gateVars, fatalVars, bulkVars, scanVars, notifyVars, rmVars>>

LookupStep ==
    /\ LookupSlot \/ LookupList \/ LookupRUnlock
    /\ UNCHANGED <<sessVars, decVars, gateVars, fatalVars, bulkVars, scanVars, notifyVars, rmVars>>

\* one condition of each kind: logged and retried, and ending the process
RetryErrs == {Err("errDiskAccessDenied", 0), Err("errDiskNotDir", 0)}

BootLiveNext ==
    /\ \/ \E d \in Disks, e \in {NoErr} \cup RetryErrs : newXLStorage(d, e)
       \/ \E d \in Disks : Sleep(d)
       \/ \E d \in Disks : Lock(d)
       \/ \E d \in Disks : AppendDrive(d)
       \/ \E d \in Disks : SetSlot(d)
       \/ \E d \in Disks : Unlock(d)
       \/ LookupRLock
       \/ LookupSlot
       \/ LookupList
       \/ LookupRUnlock
    /\ UNCHANGED <<sessVars, decVars, gateVars, fatalVars, bulkVars, scanVars, notifyVars, rmVars>>

\* the scheduler runs every task that can take a step; a task waiting for the
\* exclusive side of globalLocalDrivesMu gets it (sync.RWMutex lets no new
\* reader in while a writer waits)
BootLiveSpec ==
    /\ BootInit /\ [][BootLiveNext]_vars
    /\ \A d \in Disks : WF_vars(PublishStep(d)) /\ SF_vars(LockStep(d))
    /\ WF_vars(LookupStep)

RetrySafe ==
    \A d \in Disks :
        /\ retrying[d] =>
               /\ bpos > d /\ attempts[d] >= 1
               /\ lastErr[d] # NoErr
        /\ (retrying[d] /\ bpc[d] \in {"sleep", "new"}) =>
               (slotWrites[d] = 0 /\ Entries(d) = 0)
        /\ (retrying[d] /\ bpc[d] = "done") => (slotWrites[d] = 1 /\ Entries(d) = 1)
        /\ (retrying[d] /\ bpc[d] # "done" /\ exited) =>
               \E e \in Disks : lastErr[e].root \in AlwaysFatal
        /\ bpc[d] = "todo" <=> bpos < d

C22_Monotonic ==
    /\ DOMAIN slotWrites = Disks
    /\ \A d \in Disks : (slotWrites[d] > 0) <=> (bpc[d] \in {"unlock", "done"})
    /\ lkpc \in {"slot", "list"} =>
           /\ lkSlot = lkPub
           /\ lkSeen \subseteq lkSlot
    /\ lkSeen \subseteq {d \in Disks : slotWrites[d] > 0}

C22_Witness ==
    /\ lookups = 1 /\ lkpc = "slot"
    /\ lkSeen = {1} /\ lkSlot = Disks
    /\ retrying[MaxDisks] /\ attempts[MaxDisks] = MaxAttempts

(***************************************************************************)
(* DeleteVersionsHandler (BulkSpec)                                        *)
(***************************************************************************)
MaxVersions == 2   \* largest totalVersions of a request

\* what DeleteVersions reports for one version: nil, or a condition bare or wrapped
ItemErrs ==
    {NoErr} \cup {Err(r, d) : r \in {"errFileNotFound", "errFileVersionNotFound"},
                              d \in 0..MaxWrap}

\* what DeleteVersions returns for n versions: one entry for each
DeleteVersionsResults(n) == [1..n -> ItemErrs]

\* err.Error(): the text of the layers of context followed by the text of the root
ErrorOf(e) == [i \in 1..(e.depth + 1) |-> IF i <= e.depth THEN "context" ELSE e.root]

\* StorageErr(text): an error that is its text and nothing else
StorageErr(text) == [kind |-> "StorageErr", text |-> text]

Frame(kind, es) == [kind |-> kind, errs |-> es]

\* w.Write(b) by the transport: accepted unless this or an earlier write failed
Accepted(ok) == ok /\ ~dvBroken

\* the write closure of keepHTTPResponseAlive
dvWrite(f, ok) ==
    IF dvCanWrite
    THEN /\ dvWire' = IF Accepted(ok) THEN Append(dvWire, f) ELSE dvWire
         /\ dvCanWrite' = Accepted(ok)
         /\ dvBroken' = ~Accepted(ok)
    ELSE UNCHANGED <<dvWire, dvCanWrite, dvBroken>>

\* if !s.IsValid(w, r) { return }
DVIsValid(e) ==
    /\ dvpc = "isvalid"
    /\ IF e = NoErr
       THEN dvpc' = "atoi" /\ UNCHANGED dvErrResp
       ELSE dvpc' = "ret" /\ dvErrResp' = e
    /\ UNCHANGED <<dvN, dvIdx, dvErrs, dvSlots, dvWire, dvCanWrite, dvBroken, dvTicks>>

\* totalVersions, err := strconv.Atoi(...); versions := make([]FileInfoVersions, totalVersions)
DVAtoi(bad, n) ==
    /\ dvpc = "atoi"
    /\ IF bad
       THEN dvpc' = "ret" /\ dvErrResp' = Err("strconv.ErrSyntax", 1) /\ UNCHANGED dvN
       ELSE /\ dvN' = n /\ UNCHANGED dvErrResp
            /\ dvpc' = IF n < 0 THEN "panic" ELSE "decode"
    /\ UNCHANGED <<dvIdx, dvErrs, dvSlots, dvWire, dvCanWrite, dvBroken, dvTicks>>

\* dst.DecodeMsg(decoder) for versions[i]
DVDecodeMsg(ok) ==
    /\ dvpc = "decode" /\ dvIdx < dvN
    /\ IF ok
       THEN dvIdx' = dvIdx + 1 /\ UNCHANGED <<dvpc, dvErrResp>>
       ELSE dvpc' = "ret" /\ dvErrResp' = Err("msgp.Error", 0) /\ UNCHANGED dvIdx
    /\ UNCHANGED <<dvN, dvErrs, dvSlots, dvWire, dvCanWrite, dvBroken, dvTicks>>

\* dErrsResp := &DeleteVersionsErrsResp{Errs: make([]error, totalVersions)};
\* done := keepHTTPResponseAlive(w)
DVKeepAlive ==
    /\ dvpc = "decode" /\ dvIdx = dvN
    /\ dvSlots' = [i \in 1..dvN |-> NoSlot]
    /\ dvpc' = "call"
    /\ UNCHANGED <<dvN, dvIdx, dvErrs, dvWire, dvCanWrite, dvBroken, dvTicks, dvErrResp>>

\* case <-ticker.C: write([]byte{32})
DVTick(ok) ==
    /\ dvpc \in {"call", "done"} /\ dvTicks < MaxTicks
    /\ dvWrite(Frame("filler", << >>), ok)
    /\ dvTicks' = dvTicks + 1
    /\ UNCHANGED <<dvpc, dvN, dvIdx, dvErrs, dvSlots, dvErrResp>>

\* errs := s.getStorage().DeleteVersions(r.Context(), volume, versions, opts)
DVDeleteVersions(es) ==
    /\ dvpc = "call"
    /\ dvErrs' = es
    /\ dvpc' = "done"
    /\ UNCHANGED <<dvN, dvIdx, dvSlots, dvWire, dvCanWrite, dvBroken, dvTicks, dvErrResp>>

\* the errors DeleteVersions reported, nil excluded
Failed(es) == {i \in DOMAIN es : es[i] # NoErr}

\* done(err) with the error of the first version that failed
DVDoneFirstError(ok) ==
    /\ dvpc = "done"
    /\ IF Failed(dvErrs) = {}
       THEN dvWrite(Frame("ok", << >>), ok)
       ELSE dvWrite(Frame("err", << >>), ok)
    /\ dvpc' = "fill" /\ dvIdx' = 0
    /\ UNCHANGED <<dvN, dvErrs, dvSlots, dvTicks, dvErrResp>>

\* done(nil): the keep-alive task writes the byte 0 and ends
DVDone(ok) ==
    /\ dvpc = "done"
    /\ dvWrite(Frame("ok", << >>), ok)
    /\ dvpc' = "fill" /\ dvIdx' = 0
    /\ UNCHANGED <<dvN, dvErrs, dvSlots, dvTicks, dvErrResp>>

\* if errs[idx] != nil { dErrsResp.Errs[idx] = StorageErr(errs[idx].Error()) }
DVFill ==
    /\ dvpc = "fill" /\ dvIdx < dvN
    /\ dvSlots' = IF dvErrs[dvIdx + 1] # NoErr
                  THEN [dvSlots EXCEPT ![dvIdx + 1] = StorageErr(ErrorOf(dvErrs[dvIdx + 1]))]
                  ELSE dvSlots
    /\ dvIdx' = dvIdx + 1
    /\ UNCHANGED <<dvpc, dvN, dvErrs, dvWire, dvCanWrite, dvBroken, dvTicks, dvErrResp>>

\* encoder.Encode(dErrsResp), written to w directly
DVEncode(ok) ==
    /\ dvpc = "fill" /\ dvIdx = dvN
    /\ dvWire' = IF Accepted(ok) THEN Append(dvWire, Frame("resp", dvSlots)) ELSE dvWire
    /\ dvBroken' = ~Accepted(ok)
    /\ dvpc' = "ret"
    /\ UNCHANGED <<dvN, dvIdx, dvErrs, dvSlots, dvCanWrite, dvTicks, dvErrResp>>

BulkInit ==
    /\ dvpc = "isvalid" /\ dvN = 0 /\ dvIdx = 0 /\ dvErrs = << >> /\ dvSlots = << >>
    /\ dvWire = << >> /\ dvCanWrite = TRUE /\ dvBroken = FALSE /\ dvTicks = 0
    /\ dvErrResp = NoErr
    /\ SessIdle /\ DecIdle /\ GateIdle /\ FatalIdle /\ BootIdle /\ ScanIdle
    /\ NotifyIdle /\ RMIdle

BulkNext ==
    /\ \/ \E e \in {NoErr, Err("errDiskStale", 0)} : DVIsValid(e)
       \/ \E bad \in BOOLEAN, n \in -1..MaxVersions : DVAtoi(bad, n)
       \/ \E ok \in BOOLEAN : DVDecodeMsg(ok)
       \/ DVKeepAlive
       \/ \E ok \in BOOLEAN : DVTick(ok)
       \/ \E es \in DeleteVersionsResults(dvN) : DVDeleteVersions(es)
       \/ \E ok \in BOOLEAN : DVDone(ok)
       \/ DVFill
       \/ \E ok \in BOOLEAN : DVEncode(ok)
    /\ UNCHANGED <<sessVars, decVars, gateVars, fatalVars, bootVars, scanVars, notifyVars, rmVars>>

BulkSpec == BulkInit /\ [][BulkNext]_vars

\* the slots a response to errs es carries
SlotsFor(es) ==
    [i \in DOMAIN es |-> IF es[i] = NoErr THEN NoSlot ELSE StorageErr(ErrorOf(es[i]))]

\* DeleteVersions has returned and every slot has been looked at
Answered == dvpc = "ret" /\ dvErrResp = NoErr

\* C23: for a request of N versions that DeleteVersions was called for, the
\* response has N slots; slot i holds the message text of the error reported
\* for version i when there is one and is empty otherwise; the keep-alive
\* task never writes an error frame, whatever the versions reported: what the
\* transport accepted is fillers, then the success marker, then the response
\* with these slots.
C23_SlotPerItem ==
    /\ dvpc \in {"done", "fill", "ret"} /\ dvErrResp = NoErr =>
           /\ Len(dvErrs) = dvN /\ Len(dvSlots) = dvN
           /\ \A i \in 1..dvN :
                  dvSlots[i] \in {NoSlot, StorageErr(ErrorOf(dvErrs[i]))}
    /\ Answered => dvSlots = SlotsFor(dvErrs)
    /\ \A k \in DOMAIN dvWire :
           /\ dvWire[k].kind \in {"filler", "ok", "resp"}
           /\ dvWire[k].kind \in {"filler", "ok"} =>
                  \A j \in 1..(k - 1) : dvWire[j].kind = "filler"
           /\ dvWire[k].kind = "resp" =>
                  /\ k = Len(dvWire) /\ k > 1 /\ dvWire[k - 1].kind = "ok"
                  /\ Answered /\ dvWire[k].errs = SlotsFor(dvErrs)
                  /\ Len(dvWire[k].errs) = dvN
    /\ (Answered /\ ~dvBroken) =>
           (dvWire # << >> /\ dvWire[Len(dvWire)].kind = "resp")

C23_Witness ==
    /\ Answered /\ ~dvBroken /\ dvN = MaxVersions /\ dvTicks = MaxTicks
    /\ dvErrs[1] = Err("errFileVersionNotFound", 1) /\ dvErrs[MaxVersions] = NoErr
    /\ dvWire[Len(dvWire)] =
           Frame("resp", [i \in 1..MaxVersions |->
                             IF i = 1
                             THEN StorageErr(<<"context", "errFileVersionNotFound">>)
                             ELSE IF dvErrs[i] = NoErr THEN NoSlot
                             ELSE StorageErr(ErrorOf(dvErrs[i]))])

(***************************************************************************)
(* NSScannerHandler (ScanSpec)                                             *)
(***************************************************************************)
MaxUpdates == 2   \* updates NSScanner sends in one scan

UpdateVals == {1, 2}
UIVals     == {7, 8}
ScanErrs   == {NoErr, Err("errDiskNotFound", 0), Err("context.Canceled", 1)}

\* grid.NewRemoteErr(err): a remote error that is the text of err
NewRemoteErr(e) == [kind |-> "RemoteErr", text |-> ErrorOf(e)]

\* grid.NewRemoteErrString(msg)
NewRemoteErrString(msg) == [kind |-> "RemoteErr", text |-> <<msg>>]

Resp(kind, v) == [kind |-> kind, val |-> v]

\* checkID, the check of params.Cache, make(chan dataUsageEntry, 1) and the
\* start of the forwarding task
ScanCheck(idOK, cacheNil) ==
    /\ scpc = "start"
    /\ IF ~idOK
       THEN /\ scRet' = NewRemoteErr(Err("errDiskNotFound", 0)) /\ scpc' = "ret"
            /\ UNCHANGED <<nspc, fwpc>>
       ELSE IF cacheNil
       THEN /\ scRet' = NewRemoteErrString("NSScannerHandler: provided cache is nil")
            /\ scpc' = "ret"
            /\ UNCHANGED <<nspc, fwpc>>
       ELSE /\ scpc' = "scan" /\ nspc' = "run" /\ fwpc' = "recv"
            /\ UNCHANGED scRet
    /\ UNCHANGED <<scErr, scUI, updates, updClosed, produced, fwCur, outCh>>

\* NSScanner sends an update: it waits while the buffer of updates is full
NSSend(u) ==
    /\ nspc = "run" /\ Len(updates) < 1 /\ Len(produced) < MaxUpdates
    /\ updates' = Append(updates, u)
    /\ produced' = Append(produced, u)
    /\ UNCHANGED <<scpc, scRet, scErr, scUI, nspc, updClosed, fwpc, fwCur, outCh>>

\* ui, err := s.getStorage().NSScanner(...): NSScanner returns, having closed
\* updates or not
NSReturn(ui, e, closes) ==
    /\ nspc = "run"
    /\ nspc' = "returned" /\ scUI' = ui /\ scErr' = e /\ updClosed' = closes
    /\ scpc' = "wait"
    /\ UNCHANGED <<scRet, updates, produced, fwpc, fwCur, outCh>>

\* for update := range updates
FwdRecv ==
    /\ fwpc = "recv" /\ updates # << >>
    /\ fwCur' = Head(updates) /\ updates' = Tail(updates)
    /\ fwpc' = "send"
    /\ UNCHANGED <<scpc, scRet, scErr, scUI, nspc, updClosed, produced, outCh>>

\* resp.Update = &update; out <- resp
FwdSend ==
    /\ fwpc = "send"
    /\ outCh' = Append(outCh, Resp("update", fwCur))
    /\ fwpc' = "recv"
    /\ UNCHANGED <<scpc, scRet, scErr, scUI, nspc, updates, updClosed, produced, fwCur>>

\* the range over updates ends when updates is closed and empty: wg.Done()
FwdEnd ==
    /\ fwpc = "recv" /\ updates = << >> /\ updClosed
    /\ fwpc' = "done"
    /\ UNCHANGED <<scpc, scRet, scErr, scUI, nspc, updates, updClosed, produced,
                   fwCur, outCh>>

\* the handler goes on without wg.Wait()
ScanWaitNoWg ==
    /\ scpc = "wait"
    /\ IF scErr # NoErr
       THEN scRet' = NewRemoteErr(scErr) /\ scpc' = "ret"
       ELSE scpc' = "final" /\ UNCHANGED scRet
    /\ UNCHANGED <<scErr, scUI, nspc, updates, updClosed, produced, fwpc, fwCur, outCh>>

\* wg.Wait(); if err != nil { return grid.NewRemoteErr(err) }
ScanWait ==
    /\ scpc = "wait" /\ fwpc = "done"
    /\ IF scErr # NoErr
       THEN scRet' = NewRemoteErr(scErr) /\ scpc' = "ret"
       ELSE scpc' = "final" /\ UNCHANGED scRet
    /\ UNCHANGED <<scErr, scUI, nspc, updates, updClosed, produced, fwpc, fwCur, outCh>>

\* resp.Final = &ui; out <- resp; return nil
ScanFinal ==
    /\ scpc = "final"
    /\ outCh' = Append(outCh, Resp("final", scUI))
    /\ scRet' = NoSlot /\ scpc' = "ret"
    /\ UNCHANGED <<scErr, scUI, nspc, updates, updClosed, produced, fwpc, fwCur>>

ScanInit ==
    /\ scpc = "start" /\ scRet = NoSlot /\ scErr = NoErr /\ scUI = 0 /\ nspc = "idle"
    /\ updates = << >> /\ updClosed = FALSE /\ produced = << >>
    /\ fwpc = "none" /\ fwCur = 0 /\ outCh = << >>
    /\ SessIdle /\ DecIdle /\ GateIdle /\ FatalIdle /\ BootIdle /\ BulkIdle
    /\ NotifyIdle /\ RMIdle

ScanNext ==
    /\ \/ \E idOK \in BOOLEAN, cacheNil \in BOOLEAN : ScanCheck(idOK, cacheNil)
       \/ \E u \in UpdateVals : NSSend(u)
       \/ \E ui \in UIVals, e \in ScanErrs, closes \in BOOLEAN : NSReturn(ui, e, closes)
       \/ FwdRecv
       \/ FwdSend
       \/ FwdEnd
       \/ ScanWait
       \/ ScanFinal
    /\ UNCHANGED <<sessVars, decVars, gateVars, fatalVars, bootVars, bulkVars, notifyVars, rmVars>>

\* the steps of the forwarding task and of the handler; the receiver of out
\* takes what is sent
ForwardStep ==
    /\ FwdRecv \/ FwdSend \/ FwdEnd
    /\ UNCHANGED <<sessVars, decVars, gateVars, fatalVars, bootVars, bulkVars, notifyVars, rmVars>>

HandlerStep ==
    /\ ScanWait \/ ScanFinal
    /\ UNCHANGED <<sessVars, decVars, gateVars, fatalVars, bootVars, bulkVars, notifyVars, rmVars>>

ScanSpec ==
    /\ ScanInit /\ [][ScanNext]_vars
    /\ WF_vars(ForwardStep) /\ WF_vars(HandlerStep)

\* what holds of out at every moment
StreamSafe ==
    /\ \A k \in DOMAIN outCh :
           /\ outCh[k].kind = "update" =>
                  (k <= Len(produced) /\ outCh[k].val = produced[k])
           /\ outCh[k].kind = "final" =>
                  /\ k = Len(outCh) /\ k = Len(produced) + 1
                  /\ nspc = "returned" /\ scErr = NoErr /\ outCh[k].val = scUI
    /\ (scpc = "ret" /\ nspc = "returned") =>
           IF scErr # NoErr
           THEN /\ scRet = NewRemoteErr(scErr)
                /\ Len(outCh) = Len(produced)
                /\ \A k \in DOMAIN outCh : outCh[k].kind = "update"
           ELSE /\ scRet = NoSlot
                /\ Len(outCh) = Len(produced) + 1
                /\ outCh[Len(outCh)] = Resp("final", scUI)

\* C28: every update NSScanner sends is sent on out, in the order sent; the
\* final response is sent after all of them, after NSScanner returned, and
\* only when it returned no error; when it returned an error the handler
\* returns that error as a remote error and sends no final response; and
\* once NSScanner has returned and closed updates the handler returns.
C28_StreamThenFinal ==
    /\ []StreamSafe
    /\ (nspc = "returned" /\ updClosed) ~> (scpc = "ret")

C28_Witness ==
    /\ scpc = "ret" /\ scErr = NoErr /\ produced = <<2, 1>>
    /\ outCh = <<Resp("update", 2), Resp("update", 1), Resp("final", 8)>>

\* the non-empty blocks producer p gave to Write after a completion call returned
LateBlocks(p) == {k \in DOMAIN late : late[k][1] = p /\ late[k][2] # << >>}

\* C31 as stated: a Write made after CloseWithError has returned, with nil or
\* with an error, returns without handing its block to the owner task. Fails
\* after CloseWithError(nil): h.err is nil, the block is not empty, and the
\* Write waits in h.block <- tmp for an owner task that has ended.
C31_Original ==
    \A k \in DOMAIN late : pw[late[k][1]] = "idle"

\* C31 amended: once CloseWithError has returned the owner task has ended and
\* closed the channel, so no later Write is received or written; a later
\* Write returns at once when the stream was closed with an error or when the
\* block is empty, and waits for ever in the hand-off when the stream was
\* closed with nil and the block is not empty.
C31_WriteAfterClose ==
    late # << >> =>
        /\ variant = "stream" /\ taskpc = "done" /\ chClosed /\ Completed
        /\ hErr = arg[first]
        /\ \A p \in Producers :
               /\ (hErr # "nil" /\ LateBlocks(p) # {}) => pw[p] = "idle"
               /\ (hErr = "nil" /\ LateBlocks(p) # {}) =>
                      (pw[p] = "sending" /\ Cardinality(LateBlocks(p)) = 1
                       /\ \A k \in LateBlocks(p) : blk[p] = late[k][2])
               /\ (LateBlocks(p) = {} /\ \E k \in DOMAIN late : late[k][1] = p) =>
                      pw[p] = "idle"
        /\ Len(accepted) + Len(late) <= Len(submitted)

C31_Witness ==
    /\ variant = "stream" /\ hErr = "eA" /\ pc["h1"] = "ret"
    /\ late = << <<"p1", <<32, 2>>>>, <<"p2", << >>>> >>
    /\ pw["p1"] = "idle" /\ pw["p2"] = "idle" /\ accepted = << >>

(***************************************************************************)
(* closeNotifier with Read and Close called from two tasks (NotifySpec)    *)
(***************************************************************************)
MaxReads  == 2   \* Read calls on one body
MaxCloses == 2   \* Close calls on one body

\* n, err = c.rc.Read(p): without an error the call returns at once
NotifyRead(withErr) ==
    /\ nfPanic = "" /\ nfpc["rd"] = "idle" /\ nfReads < MaxReads
    /\ nfReads' = nfReads + 1
    /\ nfpc' = [nfpc EXCEPT !["rd"] = IF withErr THEN "chk" ELSE "idle"]
    /\ UNCHANGED <<nfDone, nfClosed, nfCloseOps, nfPanic, nfCloses, nfFirst>>

\* Close is called
NotifyClose ==
    /\ nfPanic = "" /\ nfpc["cl"] = "idle" /\ nfCloses < MaxCloses
    /\ nfCloses' = nfCloses + 1
    /\ nfpc' = [nfpc EXCEPT !["cl"] = "chk"]
    /\ UNCHANGED <<nfDone, nfClosed, nfCloseOps, nfPanic, nfReads, nfFirst>>

\* where a call goes on after the notification: Read returns, Close calls c.rc.Close()
AfterNotify(t) == IF t = "rd" THEN "idle" ELSE "rcclose"

\* if c.done != nil
NotifyCheck(t) ==
    /\ nfPanic = "" /\ nfpc[t] = "chk"
    /\ nfpc' = [nfpc EXCEPT ![t] = IF nfDone # "nil" THEN "close" ELSE AfterNotify(t)]
    /\ UNCHANGED <<nfDone, nfClosed, nfCloseOps, nfPanic, nfReads, nfCloses, nfFirst>>

\* close(c.done): the field is read again (reload) or the value the check read
\* is used; closing a nil channel and closing a closed channel both panic
NotifyCloseCh(t, reload) ==
    /\ nfPanic = "" /\ nfpc[t] = "close"
    /\ IF reload /\ nfDone = "nil"
       THEN /\ nfPanic' = "nil channel"
            /\ UNCHANGED <<nfpc, nfClosed, nfCloseOps, nfFirst>>
       ELSE /\ nfCloseOps' = nfCloseOps + 1
            /\ IF nfClosed
               THEN nfPanic' = "closed channel" /\ UNCHANGED <<nfpc, nfClosed, nfFirst>>
               ELSE /\ nfClosed' = TRUE
                    /\ nfFirst' = IF t = "rd" THEN "Read" ELSE "Close"
                    /\ nfpc' = [nfpc EXCEPT ![t] = "clr"]
                    /\ UNCHANGED nfPanic
    /\ UNCHANGED <<nfDone, nfReads, nfCloses>>

\* c.done = nil
NotifyClear(t) ==
    /\ nfPanic = "" /\ nfpc[t] = "clr"
    /\ nfDone' = "nil"
    /\ nfpc' = [nfpc EXCEPT ![t] = AfterNotify(t)]
    /\ UNCHANGED <<nfClosed, nfCloseOps, nfPanic, nfReads, nfCloses, nfFirst>>

\* return c.rc.Close()
NotifyRcClose ==
    /\ nfPanic = "" /\ nfpc["cl"] = "rcclose"
    /\ nfpc' = [nfpc EXCEPT !["cl"] = "idle"]
    /\ UNCHANGED <<nfDone, nfClosed, nfCloseOps, nfPanic, nfReads, nfCloses, nfFirst>>

NotifyInit ==
    /\ NotifyIdle
    /\ SessIdle /\ DecIdle /\ GateIdle /\ FatalIdle /\ BootIdle /\ BulkIdle
    /\ ScanIdle /\ RMIdle

NotifyNext ==
    /\ \/ \E withErr \in BOOLEAN : NotifyRead(withErr)
       \/ NotifyClose
       \/ \E t \in NotifyTasks : NotifyCheck(t)
       \/ \E t \in NotifyTasks, reload \in BOOLEAN : NotifyCloseCh(t, reload)
       \/ \E t \in NotifyTasks : NotifyClear(t)
       \/ NotifyRcClose
    /\ UNCHANGED <<sessVars, decVars, gateVars, fatalVars, bootVars, bulkVars,
                   scanVars, rmVars>>

NotifySpec == NotifyInit /\ [][NotifyNext]_vars

\* C33 as stated: over every sequence and interleaving of Read and Close calls
\* the body-done channel is closed at most once and no close panics. Fails
\* when a Read that returned an error and a Close run at the same time: both
\* find c.done non-nil before either has cleared it.
C33_Original ==
    nfCloseOps <= 1 /\ nfPanic = ""

(***************************************************************************)
(* ReadMultiple: the handler, its encoder task, the collaborator and the   *)
(* owner task of the stream (ReadMultipleSpec)                             *)
(***************************************************************************)
MaxFiles == 1   \* largest len(req.Files)

\* the caller name of the handler's CloseWithError: h1 names the call made first
HandlerCaller == IF pc["h1"] = "idle" THEN "h1" ELSE "h2"

\* err := req.DecodeMsg(mr); if err != nil { rw.CloseWithError(err); return };
\* responses := make(chan ReadMultipleResp, len(req.Files)); go func() {...}()
RMDecodeMsg(e, n) ==
    /\ rmpc = "decode"
    /\ IF e # "nil"
       THEN /\ DoneBegin("h1", e)
            /\ rmpc' = "close"
            /\ UNCHANGED <<epc, colpc, responses, rspClosed, rspSent, nFiles, rmErr>>
       ELSE /\ nFiles' = n /\ rmpc' = "call" /\ epc' = "recv" /\ colpc' = "run"
            /\ UNCHANGED <<responses, rspClosed, rspSent, rmErr>>
            /\ UNCHANGED sessVars

\* the collaborator sends a response: into the buffer, or to the encoder task
\* that waits in the range when the channel has no buffer
ReadMultipleSend ==
    /\ colpc = "run" /\ rspSent < MaxBlocks
    /\ rspSent' = rspSent + 1
    /\ IF responses < nFiles
       THEN responses' = responses + 1 /\ UNCHANGED epc
       ELSE /\ nFiles = 0 /\ epc = "recv"
            /\ epc' = "encode" /\ UNCHANGED responses
    /\ UNCHANGED <<rmpc, colpc, rspClosed, nFiles, rmErr>>
    /\ UNCHANGED sessVars

\* err = s.getStorage().ReadMultiple(r.Context(), req, responses): the
\* collaborator closes responses and returns
ReadMultipleReturn(e) ==
    /\ colpc = "run"
    /\ colpc' = "returned" /\ rspClosed' = TRUE /\ rmErr' = e
    /\ rmpc' = "wait"
    /\ UNCHANGED <<epc, responses, rspSent, nFiles>>
    /\ UNCHANGED sessVars

\* for resp := range responses
EncRecv ==
    /\ epc = "recv" /\ responses > 0
    /\ responses' = responses - 1 /\ epc' = "encode"
    /\ UNCHANGED <<rmpc, colpc, rspClosed, rspSent, nFiles, rmErr>>
    /\ UNCHANGED sessVars

\* the range ends: responses is closed and empty; wg.Done()
EncEnd ==
    /\ epc = "recv" /\ responses = 0 /\ rspClosed
    /\ epc' = "done"
    /\ UNCHANGED <<rmpc, colpc, responses, rspClosed, rspSent, nFiles, rmErr>>
    /\ UNCHANGED sessVars

\* resp.EncodeMsg(mw) without error; mw.Flush() calls rw.Write
EncFlush(b) ==
    /\ epc = "encode"
    /\ Write("p1", b)
    /\ epc' = "writing"
    /\ UNCHANGED <<rmpc, colpc, responses, rspClosed, rspSent, nFiles, rmErr>>

\* rw.Write has returned
EncWritten ==
    /\ epc = "writing" /\ pw["p1"] = "idle"
    /\ epc' = "recv"
    /\ UNCHANGED <<rmpc, colpc, responses, rspClosed, rspSent, nFiles, rmErr>>
    /\ UNCHANGED sessVars

\* resp.EncodeMsg(mw) fails: rw.CloseWithError(err)
EncFail(e) ==
    /\ epc = "encode" /\ e # "nil"
    /\ DoneBegin("h1", e)
    /\ epc' = "closing"
    /\ UNCHANGED <<rmpc, colpc, responses, rspClosed, rspSent, nFiles, rmErr>>

\* CloseWithError has returned: return; wg.Done()
EncClosed ==
    /\ epc = "closing" /\ pc["h1"] = "ret"
    /\ epc' = "done"
    /\ UNCHANGED <<rmpc, colpc, responses, rspClosed, rspSent, nFiles, rmErr>>
    /\ UNCHANGED sessVars

\* rw.CloseWithError(err) without wg.Wait()
RMWaitNoWg ==
    /\ rmpc = "wait"
    /\ DoneBegin(HandlerCaller, rmErr)
    /\ rmpc' = "close"
    /\ UNCHANGED <<epc, colpc, responses, rspClosed, rspSent, nFiles, rmErr>>

\* wg.Wait(); rw.CloseWithError(err)
RMWait ==
    /\ rmpc = "wait" /\ epc = "done"
    /\ DoneBegin(HandlerCaller, rmErr)
    /\ rmpc' = "close"
    /\ UNCHANGED <<epc, colpc, responses, rspClosed, rspSent, nFiles, rmErr>>

\* the handler's CloseWithError has returned, and with it the handler
RMReturn ==
    /\ rmpc = "close" /\ \A c \in Callers : ~InProgress(c)
    /\ rmpc' = "ret"
    /\ UNCHANGED <<epc, colpc, responses, rspClosed, rspSent, nFiles, rmErr>>
    /\ UNCHANGED sessVars

\* the steps of the owner task of the stream and of a CloseWithError under way
StreamStep ==
    /\ \/ \E n \in 0..1, ok \in BOOLEAN : TaskTick(n, ok)
       \/ \E c \in Callers : TaskRecvDone(c)
       \/ \E n \in 0..3, ok \in BOOLEAN : TaskFinish(n, ok)
       \/ TaskRecvBlock("p1")
       \/ \E n \in 0..7, ok \in BOOLEAN : TaskWriteBlock(n, ok)
       \/ \E c \in Callers : DoneSendEval(c)
       \/ \E c \in Callers : DoneRecvEval(c)
       \/ \E c \in Callers : DoneRecvClosed(c)
       \/ \E c \in Callers : DoneClear(c)
    /\ UNCHANGED rmVars

ReadMultipleInit ==
    /\ variant = "stream"
    /\ doneVar = "ch" /\ chClosed = FALSE
    /\ taskpc = StartPc(variant)
    /\ termErr = "nil" /\ cur = << >> /\ canWrite = TRUE /\ alive = TRUE
    /\ wire = << >> /\ ticks = 0
    /\ pc = [c \in Callers |-> "idle"] /\ arg = [c \in Callers |-> "nil"]
    /\ noop = [c \in Callers |-> FALSE] /\ first = "none" /\ overlap = FALSE
    /\ hErr = "nil" /\ pw = [p \in Producers |-> "idle"]
    /\ blk = [p \in Producers |-> << >>] /\ submitted = << >> /\ accepted = << >>
    /\ paid = FALSE /\ ctxDone = FALSE /\ bodyDone = FALSE /\ cnDone = "ch"
    /\ bodyLeft = 0 /\ wops = 0 /\ failOp = 0 /\ late = << >>
    /\ rmpc = "decode" /\ epc = "none" /\ colpc = "idle" /\ responses = 0
    /\ rspClosed = FALSE /\ rspSent = 0 /\ nFiles = 0 /\ rmErr = "nil"
    /\ DecIdle /\ GateIdle /\ FatalIdle /\ BootIdle /\ BulkIdle /\ ScanIdle
    /\ NotifyIdle

ReadMultipleNext ==
    /\ \/ \E e \in Errs, n \in 0..MaxFiles : RMDecodeMsg(e, n)
       \/ ReadMultipleSend
       \/ \E e \in Errs : ReadMultipleReturn(e)
       \/ EncRecv
       \/ EncEnd
       \/ \E b \in BlockSet : EncFlush(b)
       \/ EncWritten
       \/ \E e \in Errs : EncFail(e)
       \/ EncClosed
       \/ RMWait
       \/ RMReturn
       \/ StreamStep
    /\ UNCHANGED <<decVars, gateVars, fatalVars, bootVars, bulkVars, scanVars,
                   notifyVars>>

\* the steps of the encoder task
EncStep ==
    /\ \/ EncRecv \/ EncEnd \/ EncWritten \/ EncClosed
       \/ \E b \in BlockSet : EncFlush(b)
       \/ \E e \in Errs : EncFail(e)
    /\ UNCHANGED <<decVars, gateVars, fatalVars, bootVars, bulkVars, scanVars,
                   notifyVars>>

\* the steps of the handler after the collaborator returned
RMStep ==
    /\ RMWait \/ RMReturn
    /\ UNCHANGED <<decVars, gateVars, fatalVars, bootVars, bulkVars, scanVars,
                   notifyVars>>

\* the owner task's select takes the block case
TaskBlockCase ==
    /\ TaskRecvBlock("p1")
    /\ UNCHANGED <<decVars, gateVars, fatalVars, bootVars, bulkVars, scanVars,
                   notifyVars, rmVars>>

\* the scheduler runs every task that can take a step; a select case that
\* stays ready is chosen at some point; nothing is assumed of the collaborator
ReadMultipleSpec ==
    /\ ReadMultipleInit /\ [][ReadMultipleNext]_vars
    /\ WF_vars(TaskStep) /\ SF_vars(TaskDoneCase) /\ SF_vars(TaskBlockCase)
    /\ \A c \in Callers : WF_vars(DoneStep(c))
    /\ WF_vars(EncStep) /\ WF_vars(RMStep)

\* the handler's last CloseWithError is due: the collaborator has closed
\* responses and returned, or the request could not be decoded
Due == colpc = "returned" \/ rmpc = "close"

\* C32 as stated: once the collaborator has returned and closed responses,
\* the handler returns, the encoder task has ended and exactly one terminal
\* frame has been written. Fails when a write to the transport failed: the
\* terminal frame is then cut short or not written at all.
C32_Original ==
    Due ~> (rmpc = "ret" /\ epc \in {"none", "done"}
            /\ Sel("term") = TermBytes(termErr))

\* at no moment is a task of ReadMultiple stopped for good by a panic or a nil channel
NoTaskLost ==
    /\ \A c \in Callers : pc[c] \notin {"panic", "stuck"}
    /\ ~overlap
    /\ IsPrefix(Sel("term"), TermBytes(termErr))
    /\ rmpc = "ret" =>
           /\ epc \in {"none", "done"} /\ taskpc = "done" /\ chClosed
           /\ termErr = arg[first] /\ pw["p1"] = "idle"
           /\ canWrite => Sel("term") = TermBytes(termErr)

\* C32 amended: once the collaborator has returned and closed responses, in
\* every interleaving, an encoding failure in the middle of the stream
\* included, the handler returns, and by then the encoder task and the owner
\* task have ended and the owner task has passed one terminal frame to its
\* write closure, the one of the first CloseWithError; that frame is on the
\* wire in full unless a write to the transport failed.
C32_Terminates ==
    /\ []NoTaskLost
    /\ Due ~> (rmpc = "ret" /\ epc \in {"none", "done"} /\ taskpc = "done")

C32_Witness ==
    /\ rmpc = "ret" /\ epc = "done" /\ rmErr = "nil" /\ canWrite
    /\ pc["h1"] = "ret" /\ arg["h1"] = "eA" /\ pc["h2"] = "ret" /\ noop["h2"]
    /\ accepted = << <<32, 2>> >> /\ rspSent = MaxBlocks
    /\ Sel("term") = TermBytes("eA") /\ Sel("blk") = BlockBytes(<<32, 2>>)

====
